---- MODULE Spec2Model ----
(***************************************************************************)
(* Model of the ia32 Lithium code generator (LCodeGen) of V8: the driver   *)
(* GenerateCode with its phases, deoptimization-environment registration   *)
(* and translation writing, deopt guards with the jump table, and          *)
(* safepoint recording.                                                    *)
(***************************************************************************)
EXTENDS Integers, Sequences, FiniteSets, TLC

VARIABLES
  status_,            \* LCodeGenBase::status_
  phase,              \* position of the driver inside GenerateCode
  result,             \* value returned by GenerateCode ("none" while running)
  cfg,                \* CompilationInfo / flags, fixed at construction
  masm,               \* the instructions emitted so far, in buffer order
  frame_is_built_,    \* LCodeGen::frame_is_built_
  last_lazy_deopt_pc_,\* LCodeGen::last_lazy_deopt_pc_
  current_instruction_, \* number of body instructions dispatched so far
  deferred_,          \* LCodeGen::deferred_ (blocks registered so far)
  deferred_index,     \* loop index i of GenerateDeferredCode
  jump_table_,        \* LCodeGen::jump_table_
  environments,       \* the LEnvironment objects of the chunk
  translations_,      \* LCodeGen::translations_ (TranslationBuffer)
  deoptimizations_,   \* LCodeGen::deoptimizations_
  deoptimization_literals_, \* LCodeGen::deoptimization_literals_
  safepoints_,        \* LCodeGen::safepoints_ (SafepointTableBuilder)
  bailout_reason,     \* CompilationInfo::bailout_reason()
  hydrogen_env,       \* the logical (Hydrogen) slots the environments were built from
  guards,             \* every DeoptimizeIf that reached its branch, in call order
  last,               \* the handler that ran in the last step, with its inputs
  isolate             \* the Isolate: its snapshot blob and what was deserialized from it

vars == <<status_, phase, result, cfg, masm, frame_is_built_, last_lazy_deopt_pc_,
          current_instruction_, deferred_, deferred_index, jump_table_,
          environments, translations_, deoptimizations_,
          deoptimization_literals_, safepoints_, bailout_reason, hydrogen_env,
          guards, last, isolate>>

\* ------------------------------------------------------------------ bounds
MaxInstr == 3
MaxDeoptEntries == 2
MaxSlots == 2
MaxFields == 2
MaxPointers == 3
MaxCode == 1
MaxSafepoints == 2

\* --------------------------------------------------------------- utilities
Last(s) == s[Len(s)]

IsPrefix(s, t) == Len(s) <= Len(t) /\ SubSeq(t, 1, Len(s)) = s

RECURSIVE SumSeq(_)
SumSeq(s) == IF s = <<>> THEN 0 ELSE Head(s) + SumSeq(Tail(s))

SeqsUpTo(S, n) == UNION {[1..k -> S] : k \in 0..n}

NoDuplicates(s) == \A i, j \in 1..Len(s) : s[i] = s[j] => i = j

\* ------------------------------------------------- operands and registers
kNoDeoptimizationIndex == -1
NULL == 0

Cmd(op, a, b) == [op |-> op, a |-> a, b |-> b]

LOperand(kind, index) == [kind |-> kind, index |-> index]
materialization_marker == LOperand("MARKER", 0)

\* Register::FromAllocationIndex: eax, ecx, edx, ebx, esi, edi have codes 0,1,2,3,6,7
RegisterFromAllocationIndex(index) == IF index >= 4 THEN index + 2 ELSE index
\* XMMRegister::FromAllocationIndex / ToAllocationIndex: xmm0 is the scratch register
XMMFromAllocationIndex(index) == index + 1
XMMToAllocationIndex(code) == code - 1

ToRegister(op) == RegisterFromAllocationIndex(op.index)
ToDoubleRegister(op) == XMMFromAllocationIndex(op.index)
ToSIMD128Register(op) == XMMFromAllocationIndex(op.index)

\* chunk()->LookupConstant(op)->handle(): constants 0 and 1 share one heap object
ConstantHandle(index) == 10 + (index \div 2)
\* the closure (function identity) of an environment, as a heap object
ClosureHandle(closure) == 20 + closure
\* formal parameter count of the function behind a closure handle
FormalParameterCount(handle) == handle - 20

\* LCodeGenBase::DefineDeoptimizationLiteral: index of the literal, added if new
LiteralIndex(literals, literal) ==
  IF \E i \in 1..Len(literals) : literals[i] = literal
  THEN (CHOOSE i \in 1..Len(literals) :
          literals[i] = literal /\ \A j \in 1..(i-1) : literals[j] # literal) - 1
  ELSE Len(literals)

DefineDeoptimizationLiteral(literals, literal) ==
  IF \E i \in 1..Len(literals) : literals[i] = literal
  THEN literals ELSE Append(literals, literal)

\* ------------------------------------------------------------ translation
\* Translation::Store... / Begin...Object / DuplicateObject append one command.
\* A translation state tr is [translation, literals, object_index,
\* dematerialized_index, calls, reads].
Emit(tr, c) == [tr EXCEPT !.translation = Append(@, c)]

\* a store command that takes every untagged word for a signed one
StoreCommandIgnoringUint32(op, is_tagged, is_uint32, literals) ==
  IF op.kind = "STACK_SLOT" THEN
    IF is_tagged THEN Cmd("STACK_SLOT", op.index, 0)
    ELSE Cmd("INT32_STACK_SLOT", op.index, 0)
  ELSE IF op.kind = "REGISTER" THEN
    IF is_tagged THEN Cmd("REGISTER", ToRegister(op), 0)
    ELSE Cmd("INT32_REGISTER", ToRegister(op), 0)
  ELSE IF op.kind = "CONSTANT_OPERAND"
    THEN Cmd("LITERAL", LiteralIndex(literals, ConstantHandle(op.index)), 0)
  ELSE IF op.kind \in {"DOUBLE_REGISTER", "FLOAT32x4_REGISTER", "FLOAT64x2_REGISTER",
                       "INT32x4_REGISTER"}
    THEN Cmd(op.kind, XMMToAllocationIndex(ToDoubleRegister(op)), 0)
  ELSE Cmd(op.kind, op.index, 0)

\* the store command for a non-marker operand, LCodeGen::AddToTranslation
StoreCommand(op, is_tagged, is_uint32, literals) ==
  IF op.kind = "STACK_SLOT" THEN
    IF is_tagged THEN Cmd("STACK_SLOT", op.index, 0)
    ELSE IF is_uint32 THEN Cmd("UINT32_STACK_SLOT", op.index, 0)
    ELSE Cmd("INT32_STACK_SLOT", op.index, 0)
  ELSE IF op.kind = "DOUBLE_STACK_SLOT" THEN Cmd("DOUBLE_STACK_SLOT", op.index, 0)
  ELSE IF op.kind = "FLOAT32x4_STACK_SLOT" THEN Cmd("FLOAT32x4_STACK_SLOT", op.index, 0)
  ELSE IF op.kind = "FLOAT64x2_STACK_SLOT" THEN Cmd("FLOAT64x2_STACK_SLOT", op.index, 0)
  ELSE IF op.kind = "INT32x4_STACK_SLOT" THEN Cmd("INT32x4_STACK_SLOT", op.index, 0)
  ELSE IF op.kind = "REGISTER" THEN
    IF is_tagged THEN Cmd("REGISTER", ToRegister(op), 0)
    ELSE IF is_uint32 THEN Cmd("UINT32_REGISTER", ToRegister(op), 0)
    ELSE Cmd("INT32_REGISTER", ToRegister(op), 0)
  ELSE IF op.kind = "DOUBLE_REGISTER"
    THEN Cmd("DOUBLE_REGISTER", XMMToAllocationIndex(ToDoubleRegister(op)), 0)
  ELSE IF op.kind = "FLOAT32x4_REGISTER"
    THEN Cmd("FLOAT32x4_REGISTER", XMMToAllocationIndex(ToSIMD128Register(op)), 0)
  ELSE IF op.kind = "FLOAT64x2_REGISTER"
    THEN Cmd("FLOAT64x2_REGISTER", XMMToAllocationIndex(ToSIMD128Register(op)), 0)
  ELSE IF op.kind = "INT32x4_REGISTER"
    THEN Cmd("INT32x4_REGISTER", XMMToAllocationIndex(ToSIMD128Register(op)), 0)
  ELSE Cmd("LITERAL", LiteralIndex(literals, ConstantHandle(op.index)), 0)

\* Every call of AddToTranslation is recorded in tr.calls with the cursors and the
\* translation length on entry and on return, every values()->at(i) in tr.reads.
Called(environment, tr, r, op) ==
  [r EXCEPT !.calls = Append(@,
     [env |-> environment.id, op |-> op,
      object_index_in |-> tr.object_index, object_index_out |-> r.object_index,
      dematerialized_in |-> tr.dematerialized_index,
      dematerialized_out |-> r.dematerialized_index,
      length_in |-> Len(tr.translation), length_out |-> Len(r.translation)])]

ReadValue(environment, tr, parent, i) ==
  [tr EXCEPT !.reads = Append(@, [env |-> environment.id, parent |-> parent, at |-> i])]

RECURSIVE AddToTranslation(_, _, _, _, _)
RECURSIVE AddObjectFields(_, _, _, _, _, _)

\* the loop "for (i = 0; i < object_length; ++i)" of AddToTranslation
AddObjectFields(environment, tr, object_index, env_offset, i, object_length) ==
  IF i >= object_length THEN tr
  ELSE AddObjectFields(
         environment,
         AddToTranslation(environment, ReadValue(environment, tr, object_index, env_offset + i),
                          environment.values[env_offset + i + 1],
                          environment.is_tagged[env_offset + i + 1],
                          environment.is_uint32[env_offset + i + 1]),
         object_index, env_offset, i + 1, object_length)

\* AddToTranslation beginning every object as a captured object
AddToTranslationAlwaysCaptured(environment, tr, op, is_tagged, is_uint32) ==
  IF op = materialization_marker THEN
    LET object_index == tr.object_index
        tr1 == [tr EXCEPT !.object_index = @ + 1]
        obj == environment.object_mapping[object_index + 1]
    IN IF obj.is_duplicate
       THEN Called(environment, tr, Emit(tr1, Cmd("DUPLICATED_OBJECT", obj.length_or_dupe, 0)), op)
       ELSE LET object_length == obj.length_or_dupe
                tr2 == Emit(tr1, Cmd("CAPTURED_OBJECT", object_length, 0))
                env_offset == environment.translation_size + tr2.dematerialized_index
                tr3 == [tr2 EXCEPT !.dematerialized_index = @ + object_length]
            IN Called(environment, tr, AddObjectFields(environment, tr3, object_index,
                                          env_offset, 0, object_length), op)
  ELSE IF op.kind = "CONSTANT_OPERAND" THEN
    Called(environment, tr, Emit([tr EXCEPT !.literals =
                       DefineDeoptimizationLiteral(@, ConstantHandle(op.index))],
                    StoreCommand(op, is_tagged, is_uint32, tr.literals)), op)
  ELSE Called(environment, tr, Emit(tr, StoreCommand(op, is_tagged, is_uint32, tr.literals)), op)

\* AddToTranslation naming the duplicate itself in the duplicate-object command
AddToTranslationDuplicateOfSelf(environment, tr, op, is_tagged, is_uint32) ==
  IF op = materialization_marker THEN
    LET object_index == tr.object_index
        tr1 == [tr EXCEPT !.object_index = @ + 1]
        obj == environment.object_mapping[object_index + 1]
    IN IF obj.is_duplicate
       THEN Called(environment, tr, Emit(tr1, Cmd("DUPLICATED_OBJECT", object_index, 0)), op)
       ELSE LET object_length == obj.length_or_dupe
                tr2 == Emit(tr1, Cmd(IF obj.is_arguments THEN "ARGUMENTS_OBJECT"
                                     ELSE "CAPTURED_OBJECT", object_length, 0))
                env_offset == environment.translation_size + tr2.dematerialized_index
                tr3 == [tr2 EXCEPT !.dematerialized_index = @ + object_length]
            IN Called(environment, tr, AddObjectFields(environment, tr3, object_index,
                                          env_offset, 0, object_length), op)
  ELSE IF op.kind = "CONSTANT_OPERAND" THEN
    Called(environment, tr, Emit([tr EXCEPT !.literals =
                       DefineDeoptimizationLiteral(@, ConstantHandle(op.index))],
                    StoreCommand(op, is_tagged, is_uint32, tr.literals)), op)
  ELSE Called(environment, tr, Emit(tr, StoreCommand(op, is_tagged, is_uint32, tr.literals)), op)

AddToTranslation(environment, tr, op, is_tagged, is_uint32) ==
  IF op = materialization_marker THEN
    LET object_index == tr.object_index
        tr1 == [tr EXCEPT !.object_index = @ + 1]
        obj == environment.object_mapping[object_index + 1]
    IN IF obj.is_duplicate
       THEN Called(environment, tr, Emit(tr1, Cmd("DUPLICATED_OBJECT", obj.length_or_dupe, 0)), op)
       ELSE LET object_length == obj.length_or_dupe
                tr2 == Emit(tr1, Cmd(IF obj.is_arguments THEN "ARGUMENTS_OBJECT"
                                     ELSE "CAPTURED_OBJECT", object_length, 0))
                dematerialized_index == tr2.dematerialized_index
                env_offset == environment.translation_size + dematerialized_index
                tr3 == [tr2 EXCEPT !.dematerialized_index = @ + object_length]
            IN Called(environment, tr, AddObjectFields(environment, tr3, object_index,
                                          env_offset, 0, object_length), op)
  ELSE IF op.kind = "CONSTANT_OPERAND" THEN
    Called(environment, tr, Emit([tr EXCEPT !.literals =
                       DefineDeoptimizationLiteral(@, ConstantHandle(op.index))],
                    StoreCommand(op, is_tagged, is_uint32, tr.literals)), op)
  ELSE Called(environment, tr, Emit(tr, StoreCommand(op, is_tagged, is_uint32, tr.literals)), op)

\* LCodeGenBase::WriteTranslationFrame: one begin-frame command per environment
WriteTranslationFrame(environment, tr) ==
  LET lits == DefineDeoptimizationLiteral(tr.literals, ClosureHandle(environment.closure))
      closure_id == LiteralIndex(tr.literals, ClosureHandle(environment.closure))
  IN IF environment.frame_type = "JS_FUNCTION"
     THEN Emit([tr EXCEPT !.literals = lits],
               Cmd("JS_FRAME", closure_id,
                   environment.translation_size - environment.parameter_count))
     ELSE Emit([tr EXCEPT !.literals = lits],
               Cmd("ARGUMENTS_ADAPTOR_FRAME", closure_id, environment.translation_size))

RECURSIVE WriteTranslationValues(_, _, _)
\* the loop "for (i = 0; i < translation_size; ++i)" of WriteTranslation
WriteTranslationValues(environment, tr, i) ==
  IF i >= environment.translation_size THEN tr
  ELSE WriteTranslationValues(
         environment,
         AddToTranslation(environment, ReadValue(environment, tr, -1, i),
                          environment.values[i + 1],
                          environment.is_tagged[i + 1], environment.is_uint32[i + 1]),
         i + 1)

RECURSIVE WriteTranslation(_, _, _)
WriteTranslation(envs, e, tr) ==
  IF e = NULL THEN tr
  ELSE LET environment == envs[e]
           tr1 == WriteTranslation(envs, environment.outer, tr)
           tr2 == WriteTranslationFrame(environment, tr1)
           tr3 == [tr2 EXCEPT !.object_index = 0, !.dematerialized_index = 0]
       IN WriteTranslationValues(environment, tr3, 0)


\* -------------------------------------- building environments (LChunkBuilder)
\* A Hydrogen slot is a plain value or a captured/arguments object with an identity;
\* the same object may occur more than once in an environment chain.
HVal(kind, index, rep) == [t |-> "val", kind |-> kind, index |-> index, rep |-> rep]
HObj(id, args, fields) == [t |-> "obj", id |-> id, args |-> args, fields |-> fields]

OperandOf(slot) ==
  IF slot.t = "obj" THEN materialization_marker ELSE LOperand(slot.kind, slot.index)
TaggedOf(slot) == slot.t = "val" /\ slot.rep = "tagged"
Uint32Of(slot) == slot.t = "val" /\ slot.rep = "uint32"

\* LEnvironment::AddValue for each slot of a list
AddValues(b, slots) ==
  [b EXCEPT !.values = @ \o [i \in 1..Len(slots) |-> OperandOf(slots[i])],
            !.is_tagged = @ \o [i \in 1..Len(slots) |-> TaggedOf(slots[i])],
            !.is_uint32 = @ \o [i \in 1..Len(slots) |-> Uint32Of(slots[i])]]

RECURSIVE AddObjectToMaterialize(_, _)
RECURSIVE AddObjectsToMaterialize(_, _, _)

\* the second loop of CreateEnvironment / AddObjectToMaterialize: the nested objects
AddObjectsToMaterialize(slots, i, b) ==
  IF i > Len(slots) THEN b
  ELSE AddObjectsToMaterialize(slots, i + 1,
         IF slots[i].t = "obj" THEN AddObjectToMaterialize(slots[i], b) ELSE b)

AddObjectToMaterialize(value, b) ==
  LET otm == b.objects_to_materialize
      b1 == [b EXCEPT !.objects_to_materialize = Append(@, value.id)]
  IN IF \E prev \in 1..Len(otm) : otm[prev] = value.id
     THEN LET first == CHOOSE prev \in 1..Len(otm) :
                         otm[prev] = value.id /\ \A q \in 1..(prev-1) : otm[q] # value.id
          IN [b1 EXCEPT !.object_mapping = Append(@,
                [length_or_dupe |-> first - 1, is_arguments |-> FALSE,
                 is_duplicate |-> TRUE])]
     ELSE AddObjectsToMaterialize(value.fields, 1,
            AddValues([b1 EXCEPT !.object_mapping = Append(@,
                         [length_or_dupe |-> Len(value.fields),
                          is_arguments |-> value.args, is_duplicate |-> FALSE])],
                      value.fields))

\* LChunkBuilder::CreateEnvironment for one link of the chain; otm is the list of
\* objects to materialize shared by the whole chain (outermost environment first).
CreateEnvironment(id, outer, frame_type, closure, ast_id, slots, otm) ==
  LET b0 == [values |-> <<>>, is_tagged |-> <<>>, is_uint32 |-> <<>>,
             object_mapping |-> <<>>, objects_to_materialize |-> otm]
      b == AddObjectsToMaterialize(slots, 1, AddValues(b0, slots))
  IN [id |-> id, outer |-> outer, frame_type |-> frame_type, closure |-> closure,
      ast_id |-> ast_id,
      parameter_count |-> FormalParameterCount(ClosureHandle(closure)),
      translation_size |-> Len(slots),
      values |-> b.values, is_tagged |-> b.is_tagged, is_uint32 |-> b.is_uint32,
      object_mapping |-> b.object_mapping,
      objects_to_materialize |-> b.objects_to_materialize,
      deoptimization_index |-> kNoDeoptimizationIndex,
      translation_index |-> -1, pc_offset |-> -1, has_been_used |-> FALSE]

HasBeenRegistered(environment) ==
  environment.deoptimization_index # kNoDeoptimizationIndex

\* ------------------------------------------ reading a translation back
StoreOps == {"STACK_SLOT", "INT32_STACK_SLOT", "UINT32_STACK_SLOT", "DOUBLE_STACK_SLOT",
             "FLOAT32x4_STACK_SLOT", "FLOAT64x2_STACK_SLOT", "INT32x4_STACK_SLOT",
             "REGISTER", "INT32_REGISTER", "UINT32_REGISTER", "DOUBLE_REGISTER",
             "FLOAT32x4_REGISTER", "FLOAT64x2_REGISTER", "INT32x4_REGISTER", "LITERAL"}
XMMOps == {"DOUBLE_REGISTER", "FLOAT32x4_REGISTER", "FLOAT64x2_REGISTER",
           "INT32x4_REGISTER"}

Slot(store, loc) == [t |-> "val", store |-> store, loc |-> loc]
Bad == [t |-> "bad"]

\* the location a store command names
DecodeStore(c, literals) ==
  IF c.op = "LITERAL"
    THEN IF c.a + 1 \in 1..Len(literals) THEN Slot("LITERAL", literals[c.a + 1]) ELSE Bad
  ELSE IF c.op \in XMMOps THEN Slot(c.op, XMMFromAllocationIndex(c.a))
  ELSE Slot(c.op, c.a)

RECURSIVE DecodeValue(_, _, _, _)
RECURSIVE DecodeValues(_, _, _, _, _)

\* d is [nodes, pos, objs]: the values decoded so far, the next command to read and
\* the objects met so far in order (captured, arguments and duplicated alike)
DecodeValues(cmds, d, n, literals, acc) ==
  IF n = 0 THEN [d EXCEPT !.nodes = acc]
  ELSE LET r == DecodeValue(cmds, d.pos, d.objs, literals)
       IN DecodeValues(cmds, [nodes |-> <<>>, pos |-> r.pos, objs |-> r.objs],
                       n - 1, literals, Append(acc, r.node))

DecodeValue(cmds, pos, objs, literals) ==
  IF pos > Len(cmds) THEN [node |-> Bad, pos |-> pos, objs |-> objs]
  ELSE LET c == cmds[pos] IN
    IF c.op \in {"CAPTURED_OBJECT", "ARGUMENTS_OBJECT"} THEN
      LET self == Len(objs)
          r == DecodeValues(cmds, [nodes |-> <<>>, pos |-> pos + 1,
                                   objs |-> Append(objs, Bad)], c.a, literals, <<>>)
          node == [t |-> "obj", args |-> (c.op = "ARGUMENTS_OBJECT"), fields |-> r.nodes]
      IN [node |-> node, pos |-> r.pos, objs |-> [r.objs EXCEPT ![self + 1] = node]]
    ELSE IF c.op = "DUPLICATED_OBJECT" THEN
      LET node == [t |-> "dup", of |-> c.a, self |-> Len(objs)]
      IN [node |-> node, pos |-> pos + 1, objs |-> Append(objs, node)]
    ELSE IF c.op \in StoreOps THEN
      [node |-> DecodeStore(c, literals), pos |-> pos + 1, objs |-> objs]
    ELSE [node |-> Bad, pos |-> pos + 1, objs |-> objs]

RECURSIVE DecodeFrames(_, _, _, _, _)
DecodeFrames(cmds, d, n, literals, acc) ==
  IF n = 0 THEN [frames |-> acc, objs |-> d.objs, pos |-> d.pos]
  ELSE IF d.pos > Len(cmds) THEN [frames |-> Append(acc, Bad), objs |-> d.objs, pos |-> d.pos]
  ELSE LET c == cmds[d.pos]
           known == c.op \in {"JS_FRAME", "ARGUMENTS_ADAPTOR_FRAME"}
                    /\ c.a + 1 \in 1..Len(literals)
           function == literals[c.a + 1]
           count == IF c.op = "JS_FRAME" THEN c.b + FormalParameterCount(function)
                    ELSE c.b
       IN IF ~known \/ count < 0
          THEN [frames |-> Append(acc, Bad), objs |-> d.objs, pos |-> d.pos]
          ELSE LET r == DecodeValues(cmds, [nodes |-> <<>>, pos |-> d.pos + 1,
                                            objs |-> d.objs], count, literals, <<>>)
               IN DecodeFrames(cmds, r, n - 1, literals,
                    Append(acc, [t |-> "frame", frame_type |-> c.op, function |-> function,
                                 slots |-> r.nodes]))

RECURSIVE Resolve(_, _)
\* a duplicated object stands for the object it names
Resolve(node, objs) ==
  IF node.t = "dup" THEN
    IF node.of < node.self /\ node.of + 1 \in 1..Len(objs)
    THEN Resolve(objs[node.of + 1], objs) ELSE Bad
  ELSE IF node.t = "obj" THEN
    [node EXCEPT !.fields = [i \in 1..Len(node.fields) |-> Resolve(node.fields[i], objs)]]
  ELSE node

\* the frames described by the translation that starts at index (0-based)
DecodeTranslation(cmds, index, literals) ==
  IF index + 1 \notin 1..Len(cmds) \/ cmds[index + 1].op # "BEGIN" THEN <<Bad>>
  ELSE LET r == DecodeFrames(cmds, [nodes |-> <<>>, pos |-> index + 2, objs |-> <<>>],
                             cmds[index + 1].a, literals, <<>>)
       IN [i \in 1..Len(r.frames) |->
             LET f == r.frames[i]
             IN IF f.t = "bad" THEN Bad
                ELSE [f EXCEPT !.slots =
                        [j \in 1..Len(f.slots) |-> Resolve(f.slots[j], r.objs)]]]


\* what the Hydrogen environment chain says about every frame and logical slot
RECURSIVE ExpectedNode(_)
ExpectedNode(slot) ==
  IF slot.t = "obj" THEN
    [t |-> "obj", args |-> slot.args,
     fields |-> [i \in 1..Len(slot.fields) |-> ExpectedNode(slot.fields[i])]]
  ELSE IF slot.kind = "STACK_SLOT" THEN
    Slot(IF slot.rep = "tagged" THEN "STACK_SLOT"
         ELSE IF slot.rep = "uint32" THEN "UINT32_STACK_SLOT" ELSE "INT32_STACK_SLOT",
         slot.index)
  ELSE IF slot.kind = "REGISTER" THEN
    Slot(IF slot.rep = "tagged" THEN "REGISTER"
         ELSE IF slot.rep = "uint32" THEN "UINT32_REGISTER" ELSE "INT32_REGISTER",
         RegisterFromAllocationIndex(slot.index))
  ELSE IF slot.kind = "CONSTANT_OPERAND" THEN Slot("LITERAL", ConstantHandle(slot.index))
  ELSE IF slot.kind \in XMMOps THEN Slot(slot.kind, XMMFromAllocationIndex(slot.index))
  ELSE Slot(slot.kind, slot.index)

RECURSIVE ExpectedFrames(_, _)
ExpectedFrames(henv, e) ==
  IF e = NULL THEN <<>>
  ELSE Append(ExpectedFrames(henv, henv[e].outer),
              [t |-> "frame",
               frame_type |-> IF henv[e].frame_type = "JS_FUNCTION" THEN "JS_FRAME"
                              ELSE "ARGUMENTS_ADAPTOR_FRAME",
               function |-> ClosureHandle(henv[e].closure),
               slots |-> [i \in 1..Len(henv[e].slots) |-> ExpectedNode(henv[e].slots[i])]])

\* ------------------------------------------------------------ registration
RECURSIVE FrameCount(_, _, _)
\* the loop "for (e = environment; e != NULL; e = e->outer())" counting frames
FrameCount(envs, e, js_only) ==
  IF e = NULL THEN 0
  ELSE (IF js_only /\ envs[e].frame_type # "JS_FUNCTION" THEN 0 ELSE 1)
       + FrameCount(envs, envs[e].outer, js_only)

\* the Translation constructor: the translation starts at the end of the buffer
NewTranslation(c, frame_count, jsframe_count) ==
  [translation |-> Append(c.translations_, Cmd("BEGIN", frame_count, jsframe_count)),
   literals |-> c.literals, object_index |-> 0, dematerialized_index |-> 0,
   calls |-> <<>>, reads |-> <<>>]

\* LEnvironment::Register and deoptimizations_.Add, tr being the written translation
RegisterWritten(c, e, mode, offset, tr) ==
  [environments |->
     [c.environments EXCEPT ![e].has_been_used = TRUE,
                            ![e].deoptimization_index = Len(c.deoptimizations_),
                            ![e].translation_index = Len(c.translations_),
                            ![e].pc_offset = IF mode = "kLazyDeopt" THEN offset ELSE -1],
   translations_ |-> tr.translation,
   deoptimizations_ |-> Append(c.deoptimizations_, e),
   literals |-> tr.literals,
   calls |-> tr.calls, reads |-> tr.reads]

\* a registration that does not ask whether the environment is registered already
RegisterEnvironmentAgain(c, e, mode, offset) ==
  RegisterWritten(c, e, mode, offset,
    WriteTranslation(c.environments, e,
      NewTranslation(c, FrameCount(c.environments, e, FALSE),
                     FrameCount(c.environments, e, TRUE))))

\* c is [environments, translations_, deoptimizations_, literals, calls, reads]
RegisterEnvironmentForDeoptimization(c, e, mode, offset) ==
  IF HasBeenRegistered(c.environments[e])
  THEN [c EXCEPT !.environments[e].has_been_used = TRUE,
                 !.calls = <<>>, !.reads = <<>>]
  ELSE RegisterWritten(c, e, mode, offset,
         WriteTranslation(c.environments, e,
           NewTranslation(c, FrameCount(c.environments, e, FALSE),
                          FrameCount(c.environments, e, TRUE))))


\* ----------------------------------------------------------- the assembler
Ins(op, a, b) == [op |-> op, a |-> a, b |-> b]

\* Deoptimizer::patch_size() on ia32: the size of a call instruction
patch_size == 5

\* bytes an emitted item takes in the buffer (a bound label takes none)
SizeOf(item) ==
  IF item.op \in {"bind_entry", "bind_done", "bind_table", "bind_needs_frame",
                  "bind_check_maps", "bind_success", "safepoint_table"} THEN 0
  ELSE IF item.op = "nop" THEN item.a
  ELSE IF item.op \in {"call_entry", "call_runtime", "call_code", "call_needs_frame", "jmp_table",
                       "jmp_exit", "push_entry"} THEN 5
  ELSE IF item.op \in {"j_table", "j_deferred"} THEN 6
  ELSE 2

\* Assembler::pc_offset()
pc_offset(buffer) == SumSeq([i \in 1..Len(buffer) |-> SizeOf(buffer[i])])

\* g is the code generator: [status_, bailout_reason, masm, frame_is_built_,
\* last_lazy_deopt_pc_, deferred_, jump_table_, environments, translations_,
\* deoptimizations_, literals, safepoints_, guards, calls, reads]
Asm(g, item) == [g EXCEPT !.masm = Append(@, item)]

is_aborted(g) == g.status_ = "ABORTED"

\* LCodeGenBase::Abort
Abort(g, reason) ==
  [g EXCEPT !.status_ = "ABORTED",
            !.bailout_reason = IF @ = "kNoReason" THEN reason ELSE @]

\* Deoptimizer::GetDeoptimizationEntry: NULL when the table has no entry for id
BailoutTypes == <<"EAGER", "LAZY", "SOFT">>
TypeIndex(bailout_type) == CHOOSE i \in 1..3 : BailoutTypes[i] = bailout_type
GetDeoptimizationEntry(id, bailout_type) ==
  IF id >= MaxDeoptEntries THEN NULL ELSE 100 * TypeIndex(bailout_type) + id

\* Deoptimizer::JumpTableEntry::IsEquivalentTo
IsEquivalentTo(x, y) ==
  x.address = y.address /\ x.needs_frame = y.needs_frame
  /\ x.bailout_type = y.bailout_type

\* ------------------------------------------------------------- safepoints
\* LPointerMap::GetNormalizedOperands: the untagged operands are removed and an
\* operand recorded twice is kept once
RECURSIVE Normalize(_, _, _)
Normalize(ops, untagged, acc) ==
  IF ops = <<>> THEN acc
  ELSE Normalize(Tail(ops), untagged,
         IF Head(ops) \in untagged \/ \E i \in 1..Len(acc) : acc[i] = Head(ops)
         THEN acc ELSE Append(acc, Head(ops)))

GetNormalizedOperands(pointers) ==
  Normalize(pointers.pointer_operands,
            {pointers.untagged_operands[i] : i \in 1..Len(pointers.untagged_operands)},
            <<>>)

IsStackSlot(op) == op.kind = "STACK_SLOT"
IsRegister(op) == op.kind = "REGISTER"

\* a RecordSafepoint that takes a stack slot of any kind for a pointer slot
RecordSafepointSlotsOfAnyKind(g, pointers, kind, arguments, deopt_mode) ==
  LET operands == GetNormalizedOperands(pointers)
      slots == SelectSeq(operands, LAMBDA op : ~IsRegister(op))
      regs == IF kind = "kWithRegisters" THEN SelectSeq(operands, IsRegister) ELSE <<>>
  IN [g EXCEPT !.safepoints_ = Append(@,
        [pc |-> pc_offset(g.masm), kind |-> kind, arguments |-> arguments,
         deopt_mode |-> deopt_mode, pointers |-> pointers,
         indexes |-> [i \in 1..Len(slots) |-> slots[i].index],
         registers |-> [i \in 1..Len(regs) |-> ToRegister(regs[i])]])]

\* a RecordSafepoint that defines pointer registers whatever the kind
RecordSafepointRegistersAlways(g, pointers, kind, arguments, deopt_mode) ==
  LET operands == GetNormalizedOperands(pointers)
      slots == SelectSeq(operands, IsStackSlot)
      regs == SelectSeq(operands, IsRegister)
  IN [g EXCEPT !.safepoints_ = Append(@,
        [pc |-> pc_offset(g.masm), kind |-> kind, arguments |-> arguments,
         deopt_mode |-> deopt_mode, pointers |-> pointers,
         indexes |-> [i \in 1..Len(slots) |-> slots[i].index],
         registers |-> [i \in 1..Len(regs) |-> ToRegister(regs[i])]])]

\* LCodeGen::RecordSafepoint(pointers, kind, arguments, deopt_mode)
RecordSafepoint(g, pointers, kind, arguments, deopt_mode) ==
  LET operands == GetNormalizedOperands(pointers)
      slots == SelectSeq(operands, IsStackSlot)
      regs == IF kind = "kWithRegisters" THEN SelectSeq(operands, IsRegister) ELSE <<>>
      safepoint ==
        [pc |-> pc_offset(g.masm), kind |-> kind, arguments |-> arguments,
         deopt_mode |-> deopt_mode, pointers |-> pointers,
         indexes |-> [i \in 1..Len(slots) |-> slots[i].index],
         registers |-> [i \in 1..Len(regs) |-> ToRegister(regs[i])]]
  IN [g EXCEPT !.safepoints_ = Append(@, safepoint)]

\* LCodeGen::RecordSafepoint(pointers, mode)
RecordSafepointSimple(g, pointers, mode) ==
  RecordSafepoint(g, pointers, "kSimple", 0, mode)

\* LCodeGen::RecordSafepointWithRegisters
RecordSafepointWithRegisters(g, pointers, arguments, mode) ==
  RecordSafepoint(g, pointers, "kWithRegisters", arguments, mode)

\* LCodeGen::RecordSafepointWithLazyDeopt
RecordSafepointWithLazyDeopt(g, pointers, safepoint_mode) ==
  IF safepoint_mode = "RECORD_SIMPLE_SAFEPOINT"
  THEN RecordSafepointSimple(g, pointers, "kLazyDeopt")
  ELSE RecordSafepointWithRegisters(g, pointers, 0, "kLazyDeopt")

\* ------------------------------------------------------------ deopt guards
Registered(g, c) ==
  [g EXCEPT !.environments = c.environments, !.translations_ = c.translations_,
            !.deoptimizations_ = c.deoptimizations_, !.literals = c.literals,
            !.calls = c.calls, !.reads = c.reads]

\* RegisterEnvironmentForDeoptimization as the code generator calls it
Register(g, e, mode) ==
  Registered(g, RegisterEnvironmentForDeoptimization(
                  [environments |-> g.environments, translations_ |-> g.translations_,
                   deoptimizations_ |-> g.deoptimizations_, literals |-> g.literals,
                   calls |-> <<>>, reads |-> <<>>],
                  e, mode, pc_offset(g.masm)))

\* the stress-deopt sequence of "if (DeoptEveryNTimes())"
StressDeopt(g, entry) ==
  Asm(Asm(g, Ins("stress_count", 0, 0)), Ins("call_entry", entry, 0))

\* the trap of "if (info()->ShouldTrapOnDeopt())"
TrapOnDeopt(g, cc) ==
  IF cc # "no_condition"
  THEN Asm(Asm(g, Ins("j_negated", 0, 0)), Ins("int3", 0, 0))
  ELSE Asm(g, Ins("int3", 0, 0))

\* a guard branch that never reuses the last jump-table entry
EmitGuardBranchNoReuse(g, config, cc, table_entry) ==
  IF cc = "no_condition" /\ g.frame_is_built_
  THEN Asm(g, Ins("call_entry", table_entry.address, 0))
  ELSE Asm([g EXCEPT !.jump_table_ = Append(@, table_entry)],
           Ins(IF cc = "no_condition" THEN "jmp_table" ELSE "j_table",
               Len(g.jump_table_), 0))

\* a guard branch that reuses an equivalent entry anywhere in the table
EmitGuardBranchFullScan(g, config, cc, table_entry) ==
  IF cc = "no_condition" /\ g.frame_is_built_
  THEN Asm(g, Ins("call_entry", table_entry.address, 0))
  ELSE IF config.FLAG_trace_deopt \/ config.is_profiling
          \/ ~\E i \in 1..Len(g.jump_table_) : IsEquivalentTo(table_entry, g.jump_table_[i])
  THEN Asm([g EXCEPT !.jump_table_ = Append(@, table_entry)],
           Ins(IF cc = "no_condition" THEN "jmp_table" ELSE "j_table",
               Len(g.jump_table_), 0))
  ELSE Asm(g, Ins(IF cc = "no_condition" THEN "jmp_table" ELSE "j_table",
                  (CHOOSE i \in 1..Len(g.jump_table_) :
                     IsEquivalentTo(table_entry, g.jump_table_[i])) - 1, 0))

\* a guard branch that calls the entry directly whenever the frame is built
EmitGuardBranchCallIfFrame(g, config, cc, table_entry) ==
  IF g.frame_is_built_
  THEN Asm(g, Ins("call_entry", table_entry.address, 0))
  ELSE IF config.FLAG_trace_deopt \/ config.is_profiling \/ g.jump_table_ = <<>>
          \/ ~IsEquivalentTo(table_entry, Last(g.jump_table_))
  THEN Asm([g EXCEPT !.jump_table_ = Append(@, table_entry)],
           Ins(IF cc = "no_condition" THEN "jmp_table" ELSE "j_table",
               Len(g.jump_table_), 0))
  ELSE Asm(g, Ins(IF cc = "no_condition" THEN "jmp_table" ELSE "j_table",
                  Len(g.jump_table_) - 1, 0))

\* the branch of a guard: a direct call of the entry, or a jump to a jump-table entry
EmitGuardBranch(g, config, cc, table_entry) ==
  IF cc = "no_condition" /\ g.frame_is_built_
  THEN Asm(g, Ins("call_entry", table_entry.address, 0))
  ELSE IF config.FLAG_trace_deopt \/ config.is_profiling \/ g.jump_table_ = <<>>
          \/ ~IsEquivalentTo(table_entry, Last(g.jump_table_))
  THEN Asm([g EXCEPT !.jump_table_ = Append(@, table_entry)],
           Ins(IF cc = "no_condition" THEN "jmp_table" ELSE "j_table",
               Len(g.jump_table_), 0))
  ELSE Asm(g, Ins(IF cc = "no_condition" THEN "jmp_table" ELSE "j_table",
                  Len(g.jump_table_) - 1, 0))

\* DeoptimizeIf once the entry is known to exist
GuardWithEntry(g, config, cc, e, deopt_reason, bailout_type, entry) ==
  EmitGuardBranch(
    [g EXCEPT !.guards = Append(@,
       [cc |-> cc, env |-> e, reason |-> deopt_reason, address |-> entry,
        bailout_type |-> bailout_type, frame_is_built |-> g.frame_is_built_,
        at |-> Len(g.masm) + 1])],
    config, cc,
    [address |-> entry, reason |-> deopt_reason, bailout_type |-> bailout_type,
     needs_frame |-> ~g.frame_is_built_])

\* the instrumentation of DeoptimizeIf: stress deopts and the trap
Instrument(g, config, cc, entry) ==
  IF config.DeoptEveryNTimes /\ config.ShouldTrapOnDeopt
    THEN TrapOnDeopt(StressDeopt(g, entry), cc)
  ELSE IF config.DeoptEveryNTimes THEN StressDeopt(g, entry)
  ELSE IF config.ShouldTrapOnDeopt THEN TrapOnDeopt(g, cc)
  ELSE g

\* DeoptimizeIf after the environment is registered
GuardRegistered(g, config, cc, e, deopt_reason, bailout_type, entry) ==
  IF entry = NULL THEN Abort(g, "kBailoutWasNotPrepared")
  ELSE GuardWithEntry(Instrument(g, config, cc, entry), config, cc, e, deopt_reason,
                      bailout_type, entry)

EntryOf(g, e, bailout_type) ==
  GetDeoptimizationEntry(g.environments[e].deoptimization_index, bailout_type)

\* DeoptimizeIf going on after Abort(kBailoutWasNotPrepared)
GuardEntryNoReturn(g, config, cc, e, deopt_reason, bailout_type) ==
  GuardWithEntry(
    Instrument(IF EntryOf(g, e, bailout_type) = NULL
               THEN Abort(g, "kBailoutWasNotPrepared") ELSE g,
               config, cc, EntryOf(g, e, bailout_type)),
    config, cc, e, deopt_reason, bailout_type, EntryOf(g, e, bailout_type))

GuardEntry(g, config, cc, e, deopt_reason, bailout_type) ==
  GuardRegistered(g, config, cc, e, deopt_reason, bailout_type,
                  EntryOf(g, e, bailout_type))

\* LCodeGen::DeoptimizeIf(cc, instr, deopt_reason, bailout_type); e is
\* instr->environment(), config the flags and CompilationInfo
DeoptimizeIf(g, config, cc, e, deopt_reason, bailout_type) ==
  GuardEntry(Register(g, e, "kNoLazyDeopt"), config, cc, e, deopt_reason, bailout_type)

\* LCodeGen::DeoptimizeIf(cc, instr, deopt_reason): the bailout type of the unit
DeoptimizeIfDefault(g, config, cc, e, deopt_reason) ==
  DeoptimizeIf(g, config, cc, e, deopt_reason,
               IF config.IsStub THEN "LAZY" ELSE "EAGER")

\* LCodeGen::EnsureSpaceForLazyDeopt
SetLastLazyDeoptPc(g) == [g EXCEPT !.last_lazy_deopt_pc_ = pc_offset(g.masm)]

\* EnsureSpaceForLazyDeopt recording the pc without padding
EnsureSpaceForLazyDeoptUnpadded(g, config, space_needed) == SetLastLazyDeoptPc(g)

EnsureSpaceForLazyDeopt(g, config, space_needed) ==
  SetLastLazyDeoptPc(
    IF ~config.IsStub /\ pc_offset(g.masm) < g.last_lazy_deopt_pc_ + space_needed
    THEN Asm(g, Ins("nop", g.last_lazy_deopt_pc_ + space_needed - pc_offset(g.masm), 0))
    ELSE g)


\* ------------------------------------------------- the unit being compiled
\* the environments of a chunk, built from their Hydrogen descriptions; an outer
\* environment has a smaller id than the environments it is the outer of
RECURSIVE BuildEnvironments(_, _, _)
BuildEnvironments(henv, n, built) ==
  IF n > Len(henv) THEN built
  ELSE LET h == henv[n]
           otm == IF h.outer = NULL THEN <<>>
                  ELSE built[h.outer].objects_to_materialize
       IN BuildEnvironments(henv, n + 1,
            Append(built, CreateEnvironment(n, h.outer, h.frame_type, h.closure,
                                            h.ast_id, h.slots, otm)))

HEnv(outer, frame_type, closure, ast_id, slots) ==
  [outer |-> outer, frame_type |-> frame_type, closure |-> closure,
   ast_id |-> ast_id, slots |-> slots]

UnitConstant == HVal("CONSTANT_OPERAND", 0, "tagged")
UnitObject == HObj(1, FALSE, <<UnitConstant>>)

\* the environments of the compiled unit: 1 is the outer environment of 2
UnitHydrogen ==
  << HEnv(NULL, "JS_FUNCTION", 1, 10, <<HVal("STACK_SLOT", 1, "tagged")>>),
     HEnv(1, "JS_FUNCTION", 0, 20, <<HVal("REGISTER", 4, "int32"), UnitObject>>),
     HEnv(NULL, "JS_FUNCTION", 0, 30, <<UnitConstant>>),
     HEnv(NULL, "JS_FUNCTION", 0, 40, <<HVal("DOUBLE_REGISTER", 0, "double")>>) >>

\* the environments instructions carry (an outer environment belongs to its chain)
InstructionEnvironments(henv) ==
  {e \in 1..Len(henv) : \A f \in 1..Len(henv) : henv[f].outer # e}

PointerMap(pointer_operands, untagged_operands) ==
  [pointer_operands |-> pointer_operands, untagged_operands |-> untagged_operands]

UnitPointerMaps ==
  { PointerMap(<<LOperand("STACK_SLOT", 1), LOperand("REGISTER", 4),
                 LOperand("STACK_SLOT", 2)>>,
               <<LOperand("STACK_SLOT", 2)>>) }

\* NeedsEagerFrame() holds for every unit that is not a stub; NeedsDeferredFrame()
\* is !NeedsEagerFrame() && is_deferred_calling(), and a frameless stub is taken
\* to be deferred-calling
Configurations ==
  { [IsStub |-> st, NeedsEagerFrame |-> ef, NeedsDeferredFrame |-> df,
     FLAG_trace_deopt |-> tr, is_profiling |-> pr,
     DeoptEveryNTimes |-> FALSE, ShouldTrapOnDeopt |-> FALSE] :
       st \in BOOLEAN, ef \in BOOLEAN, df \in BOOLEAN, tr \in BOOLEAN, pr \in BOOLEAN }

ValidConfiguration(c) ==
  /\ (~c.IsStub => c.NeedsEagerFrame)
  /\ (c.NeedsDeferredFrame <=> ~c.NeedsEagerFrame)
  /\ ~(c.FLAG_trace_deopt /\ c.is_profiling)

\* the instructions of the chunk that matter to the driver
Instructions(henv) ==
  [op : {"Deoptimize"}, env : InstructionEnvironments(henv) \ {4},
   type : {"EAGER", "SOFT"}]
  \cup [op : {"CheckMaps"}, env : InstructionEnvironments(henv) \ {2},
        HasMigrationTarget : BOOLEAN, maps : {<<1>>}]
  \cup [op : {"CallRuntime"}, pointer_map : UnitPointerMaps]
  \cup [op : {"LazyBailout"}, env : InstructionEnvironments(henv) \ {3, 4}]
  \cup [op : {"LoadKeyed"}, key : {1, 268435456}, elements_kind : {"FAST_ELEMENTS"},
        base_offset : {7}]

\* the code generator runs in an isolate whose snapshot plays no part in it
NoBlob == [data |-> <<>>, raw_size |-> 0]
NoIsolate == [snapshot_blob |-> NoBlob]

\* ------------------------------------------------------ the state as a record
G == [status_ |-> status_, bailout_reason |-> bailout_reason, masm |-> masm,
      frame_is_built_ |-> frame_is_built_,
      last_lazy_deopt_pc_ |-> last_lazy_deopt_pc_, deferred_ |-> deferred_,
      jump_table_ |-> jump_table_, environments |-> environments,
      translations_ |-> translations_, deoptimizations_ |-> deoptimizations_,
      literals |-> deoptimization_literals_, safepoints_ |-> safepoints_,
      guards |-> guards, calls |-> <<>>, reads |-> <<>>]

Commit(g) ==
  /\ status_' = g.status_
  /\ bailout_reason' = g.bailout_reason
  /\ masm' = g.masm
  /\ frame_is_built_' = g.frame_is_built_
  /\ last_lazy_deopt_pc_' = g.last_lazy_deopt_pc_
  /\ deferred_' = g.deferred_
  /\ jump_table_' = g.jump_table_
  /\ environments' = g.environments
  /\ translations_' = g.translations_
  /\ deoptimizations_' = g.deoptimizations_
  /\ deoptimization_literals_' = g.literals
  /\ safepoints_' = g.safepoints_
  /\ guards' = g.guards
  /\ isolate' = isolate

Ran(op, e, g) ==
  [op |-> op, env |-> e, mode |-> "none", calls |-> g.calls, reads |-> g.reads]

\* GenerateCode going on to the next phase whatever the phase returned
LeaveIgnoringAbort(g, next) ==
  phase' = next /\ result' = (IF next = "finished" THEN "true" ELSE result)

\* a phase returns !is_aborted(): GenerateCode goes on to the next phase or returns
Leave(g, next) ==
  IF is_aborted(g)
  THEN phase' = "finished" /\ result' = "false"
  ELSE phase' = next /\ result' = (IF next = "finished" THEN "true" ELSE result)

\* a step inside a phase leaves the code generator in state g
Step(g, op, e) == Commit(g) /\ last' = Ran(op, e, g)

\* the step that ends a phase
EndPhase(g, next, op) == Commit(g) /\ Leave(g, next) /\ last' = Ran(op, NULL, g)


\* ------------------------------------------------------------ lowerings
\* LCodeGen::DoDeoptimize
DoDeoptimize(g, config, instr) ==
  DeoptimizeIf(g, config, "no_condition", instr.env, "kUnknown",
               IF config.IsStub /\ instr.type = "EAGER" THEN "LAZY" ELSE instr.type)

\* LCodeGen::DoLazyBailout
DoLazyBailout(g, config, instr) ==
  Register(SetLastLazyDeoptPc(g), instr.env, "kLazyDeopt")

\* LCodeGen::CallRuntime called by DoCallRuntime
DoCallRuntime(g, config, instr) ==
  RecordSafepointWithLazyDeopt(Asm(g, Ins("call_runtime", 0, 0)),
                               instr.pointer_map, "RECORD_SIMPLE_SAFEPOINT")

\* the loop of DoCheckMaps over all maps but the last: a match jumps to success
RECURSIVE CompareMaps(_, _, _, _)
CompareMaps(g, maps, i, instruction_index) ==
  IF i >= Len(maps) THEN g
  ELSE CompareMaps(Asm(Asm(g, Ins("cmp_map", maps[i], 0)),
                       Ins("j_success", instruction_index, 0)),
                   maps, i + 1, instruction_index)

\* the deferred code of a CheckMaps with a migration target, bound to check_maps
NewDeferredCheckMaps(g, instr, instruction_index) ==
  Asm([g EXCEPT !.deferred_ = Append(@,
         [op |-> "DeferredCheckMaps", env |-> instr.env,
          pointer_map |-> PointerMap(<<LOperand("REGISTER", 0),
                                       LOperand("STACK_SLOT", 3)>>, <<>>),
          instruction_index |-> instruction_index])],
      Ins("bind_check_maps", Len(g.deferred_), 0))

\* DoCheckMaps whose deferred code exits to the success label
DoCheckMapsExitToSuccess(g, config, instr, instruction_index) ==
  LET compared == Asm(CompareMaps(
                        IF instr.HasMigrationTarget
                        THEN [g EXCEPT !.deferred_ = Append(@,
                                [op |-> "DeferredCheckMaps", env |-> instr.env,
                                 pointer_map |-> PointerMap(<<LOperand("REGISTER", 0),
                                                    LOperand("STACK_SLOT", 3)>>, <<>>),
                                 instruction_index |-> instruction_index])]
                        ELSE g,
                        instr.maps, 1, instruction_index),
                      Ins("cmp_map", Last(instr.maps), 0))
  IN Asm(IF instr.HasMigrationTarget
         THEN Asm(Asm(compared, Ins("j_deferred", Len(g.deferred_), 0)),
                  Ins("bind_check_maps", Len(g.deferred_), 0))
         ELSE DeoptimizeIfDefault(compared, config, "not_equal", instr.env, "kWrongMap"),
         Ins("bind_success", instruction_index, 0))

\* LCodeGen::DoCheckMaps (not a stability check): with a migration target a
\* mismatch of the last map enters the deferred block, whose exit is check_maps;
\* without one it deoptimizes
DoCheckMaps(g, config, instr, instruction_index) ==
  LET compared == Asm(CompareMaps(
                        IF instr.HasMigrationTarget
                        THEN NewDeferredCheckMaps(g, instr, instruction_index) ELSE g,
                        instr.maps, 1, instruction_index),
                      Ins("cmp_map", Last(instr.maps), 0))
  IN Asm(IF instr.HasMigrationTarget
         THEN Asm(compared, Ins("j_deferred", Len(g.deferred_), 0))
         ELSE DeoptimizeIfDefault(compared, config, "not_equal", instr.env, "kWrongMap"),
         Ins("bind_success", instruction_index, 0))

\* LCodeGen::DoDeferredInstanceMigration
DoDeferredInstanceMigration(g, config, code) ==
  DeoptimizeIfDefault(
    Asm(RecordSafepointWithRegisters(
          Asm(Asm(g, Ins("push", 0, 0)), Ins("call_runtime", 0, 0)),
          code.pointer_map, 1, "kNoLazyDeopt"),
        Ins("test", 0, 0)),
    config, "zero", code.env, "kInstanceMigrationFailed")

\* ElementsKindToShiftSize: the binary logarithm of the size of an element
ElementsKindToShiftSize(elements_kind) ==
  CASE elements_kind \in {"INT8_ELEMENTS", "UINT8_ELEMENTS"} -> 0
    [] elements_kind \in {"INT16_ELEMENTS", "UINT16_ELEMENTS"} -> 1
    [] elements_kind \in {"INT32_ELEMENTS", "FLOAT32_ELEMENTS", "FAST_ELEMENTS",
                          "FAST_HOLEY_ELEMENTS", "FAST_SMI_ELEMENTS",
                          "FAST_HOLEY_SMI_ELEMENTS"} -> 2
    [] elements_kind \in {"FLOAT32x4_ELEMENTS", "FLOAT64x2_ELEMENTS",
                          "INT32x4_ELEMENTS"} -> 4
    [] OTHER -> 3

\* the bounds of a 32-bit int, as which an operand holds its displacement
kMaxInt32 == 2147483647
kMinInt32 == -kMaxInt32 - 1

\* "value << 1" in 32 bits: the bit shifted out is lost
Double32(value) ==
  IF value >= 2^30 THEN (value + kMinInt32) + (value + kMinInt32)
  ELSE IF value < -(2^30) THEN (value - kMinInt32) + (value - kMinInt32)
  ELSE 2 * value

RECURSIVE ShiftLeft32(_, _)
\* "value << shift" in 32 bits
ShiftLeft32(value, shift) ==
  IF shift = 0 THEN value ELSE ShiftLeft32(Double32(value), shift - 1)

\* "a + b" in 32 bits, b not negative
Add32(a, b) ==
  IF a > kMaxInt32 - b THEN (a + kMinInt32) + (b + kMinInt32) ELSE a + b

\* BuildFastArrayOperand that takes every constant key
DoLoadKeyedUnchecked(g, config, instr) ==
  Asm(g,
      Ins("mov", 0,
          [disp |-> Add32(ShiftLeft32(instr.key,
                                      ElementsKindToShiftSize(instr.elements_kind)),
                          instr.base_offset)]))

\* LCodeGen::BuildFastArrayOperand with a constant key, as a keyed load calls
\* it: the top four bits of the key must be clear; the load is a mov from the
\* operand it returns
DoLoadKeyed(g, config, instr) ==
  Asm(IF (instr.key \div 268435456) % 16 # 0
      THEN Abort(g, "kArrayIndexConstantValueTooBig") ELSE g,
      Ins("mov", 0,
          [disp |-> Add32(ShiftLeft32(instr.key,
                                      ElementsKindToShiftSize(instr.elements_kind)),
                          instr.base_offset)]))

\* LInstruction::CompileToNative
CompileToNative(g, config, instr, instruction_index) ==
  IF instr.op = "Deoptimize" THEN DoDeoptimize(g, config, instr)
  ELSE IF instr.op = "CheckMaps" THEN DoCheckMaps(g, config, instr, instruction_index)
  ELSE IF instr.op = "CallRuntime" THEN DoCallRuntime(g, config, instr)
  ELSE IF instr.op = "LazyBailout" THEN DoLazyBailout(g, config, instr)
  ELSE DoLoadKeyed(g, config, instr)

\* LCodeGen::GenerateBodyInstructionPre
GenerateBodyInstructionPre(g, config, instr) ==
  IF instr.op = "CallRuntime" THEN EnsureSpaceForLazyDeopt(g, config, patch_size) ELSE g

\* a unit has the instructions its frame allows: calls need the eager frame, a
\* deferred runtime call needs the eager or the deferred frame
Allowed(config, instr) ==
  /\ (instr.op \in {"CallRuntime", "LazyBailout"} => config.NeedsEagerFrame)
  /\ (instr.op = "CheckMaps" /\ instr.HasMigrationTarget
        => config.NeedsEagerFrame \/ config.NeedsDeferredFrame)

InstrEnv(instr) ==
  IF instr.op \in {"Deoptimize", "CheckMaps", "LazyBailout"} THEN instr.env ELSE NULL

\* ---------------------------------------------------------------- actions
\* LCodeGen::GenerateCode up to the first phase
GenerateCode ==
  /\ phase = "start" /\ status_ = "UNUSED"
  /\ Commit([G EXCEPT !.status_ = "GENERATING"])
  /\ phase' = "prologue"
  /\ last' = Ran("GenerateCode", NULL, G)
  /\ UNCHANGED <<result, cfg, hydrogen_env, current_instruction_, deferred_index>>

\* LCodeGen::GeneratePrologue
GeneratePrologue ==
  /\ phase = "prologue"
  /\ EndPhase(IF cfg.NeedsEagerFrame
              THEN Asm([G EXCEPT !.frame_is_built_ = TRUE], Ins("prologue", 0, 0))
              ELSE G,
              "body", "GeneratePrologue")
  /\ UNCHANGED <<cfg, hydrogen_env, current_instruction_, deferred_index>>

\* one iteration of the loop of LCodeGenBase::GenerateBody, in a chunk of at most
\* length instructions
GenerateBodyInstructionOf(instr, length) ==
  /\ phase = "body" /\ ~is_aborted(G) /\ current_instruction_ < length
  /\ Allowed(cfg, instr)
  /\ Step(CompileToNative(GenerateBodyInstructionPre(G, cfg, instr), cfg, instr,
                          current_instruction_),
          instr.op, InstrEnv(instr))
  /\ current_instruction_' = current_instruction_ + 1
  /\ UNCHANGED <<phase, result, cfg, hydrogen_env, deferred_index>>

GenerateBodyInstruction(instr) == GenerateBodyInstructionOf(instr, MaxInstr)

\* the end of LCodeGenBase::GenerateBody: the loop is left at the end of the
\* instruction list or on abort
GenerateBodyEnd ==
  /\ phase = "body"
  /\ EndPhase(EnsureSpaceForLazyDeopt(G, cfg, patch_size), "deferred",
              "GenerateBodyEnd")
  /\ UNCHANGED <<cfg, hydrogen_env, current_instruction_, deferred_index>>

\* a deferred block that builds its frame without noting it in frame_is_built_
BuildDeferredFrameUnnoted(g, config) ==
  IF config.NeedsDeferredFrame THEN Asm(g, Ins("build_frame", 0, 0)) ELSE g

\* the frame a deferred block builds when the main frame was elided
BuildDeferredFrame(g, config) ==
  IF config.NeedsDeferredFrame
  THEN Asm([g EXCEPT !.frame_is_built_ = TRUE], Ins("build_frame", 0, 0))
  ELSE g

DestroyDeferredFrame(g, config, i) ==
  IF config.NeedsDeferredFrame
  THEN Asm(Asm([g EXCEPT !.frame_is_built_ = FALSE], Ins("bind_done", i, 0)),
           Ins("destroy_frame", 0, 0))
  ELSE g

\* the body of the loop of GenerateDeferredCode for block i
GenerateDeferred(g, config, code, i) ==
  Asm(DestroyDeferredFrame(
        DoDeferredInstanceMigration(
          BuildDeferredFrame(Asm(g, Ins("bind_entry", i, 0)), config),
          config, code),
        config, i),
      Ins("jmp_exit", i, 0))

\* the loop of GenerateDeferredCode going on after an abort
GenerateDeferredBlockIgnoringAbort ==
  /\ phase = "deferred" /\ deferred_index < Len(deferred_)
  /\ Step(GenerateDeferred(G, cfg, deferred_[deferred_index + 1], deferred_index),
          "GenerateDeferredBlock", deferred_[deferred_index + 1].env)
  /\ deferred_index' = deferred_index + 1
  /\ UNCHANGED <<phase, result, cfg, hydrogen_env, current_instruction_>>

\* one iteration of the loop of LCodeGen::GenerateDeferredCode
GenerateDeferredBlock ==
  /\ phase = "deferred" /\ ~is_aborted(G) /\ deferred_index < Len(deferred_)
  /\ Step(GenerateDeferred(G, cfg, deferred_[deferred_index + 1], deferred_index),
          "GenerateDeferredBlock", deferred_[deferred_index + 1].env)
  /\ deferred_index' = deferred_index + 1
  /\ UNCHANGED <<phase, result, cfg, hydrogen_env, current_instruction_>>

\* the end of GenerateDeferredCode marking the unit done without asking is_aborted()
GenerateDeferredEndAlwaysDone ==
  /\ phase = "deferred" /\ (is_aborted(G) \/ deferred_index >= Len(deferred_))
  /\ EndPhase([G EXCEPT !.status_ = "DONE"], "jump_table", "GenerateDeferredEnd")
  /\ UNCHANGED <<cfg, hydrogen_env, current_instruction_, deferred_index>>

\* the end of LCodeGen::GenerateDeferredCode
GenerateDeferredEnd ==
  /\ phase = "deferred" /\ (is_aborted(G) \/ deferred_index >= Len(deferred_))
  /\ EndPhase(IF ~is_aborted(G) THEN [G EXCEPT !.status_ = "DONE"] ELSE G,
              "jump_table", "GenerateDeferredEnd")
  /\ UNCHANGED <<cfg, hydrogen_env, current_instruction_, deferred_index>>

RECURSIVE EmitJumpTable(_, _, _)
\* the loop over jump_table_ of LCodeGen::GenerateJumpTable
EmitJumpTable(g, config, i) ==
  IF i >= Len(g.jump_table_) THEN g
  ELSE LET table_entry == g.jump_table_[i + 1]
           g1 == Asm(g, Ins("bind_table", i, 0))
       IN EmitJumpTable(
            IF table_entry.needs_frame
            THEN Asm(Asm(g1, Ins("push_entry", table_entry.address, 0)),
                     Ins("call_needs_frame", 0, 0))
            ELSE Asm(g1, Ins("call_entry", table_entry.address, 0)),
            config, i + 1)

\* "if (needs_frame.is_linked())": the trampoline shared by the needs-frame entries
NeedsFrameTrampoline(g) ==
  IF \E i \in 1..Len(g.jump_table_) : g.jump_table_[i].needs_frame
  THEN Asm(Asm(g, Ins("bind_needs_frame", 0, 0)), Ins("needs_frame_trampoline", 0, 0))
  ELSE g

\* LCodeGen::GenerateJumpTable
GenerateJumpTable ==
  /\ phase = "jump_table"
  /\ EndPhase(NeedsFrameTrampoline(EmitJumpTable(G, cfg, 0)), "safepoint_table",
              "GenerateJumpTable")
  /\ UNCHANGED <<cfg, hydrogen_env, current_instruction_, deferred_index>>

\* LCodeGen::GenerateSafepointTable
GenerateSafepointTable ==
  /\ phase = "safepoint_table"
  /\ EndPhase(Asm(IF ~cfg.IsStub THEN Asm(G, Ins("nop", patch_size, 0)) ELSE G,
                  Ins("safepoint_table", Len(safepoints_), 0)),
              "finished", "GenerateSafepointTable")
  /\ UNCHANGED <<cfg, hydrogen_env, current_instruction_, deferred_index>>

Init ==
  /\ status_ = "UNUSED" /\ phase = "start" /\ result = "none"
  /\ cfg \in {c \in Configurations : ValidConfiguration(c)}
  /\ masm = <<>> /\ frame_is_built_ = FALSE /\ last_lazy_deopt_pc_ = 0
  /\ current_instruction_ = 0 /\ deferred_ = <<>> /\ deferred_index = 0
  /\ jump_table_ = <<>>
  /\ hydrogen_env = UnitHydrogen
  /\ environments = BuildEnvironments(UnitHydrogen, 1, <<>>)
  /\ translations_ = <<>> /\ deoptimizations_ = <<>>
  /\ deoptimization_literals_ = <<>> /\ safepoints_ = <<>>
  /\ bailout_reason = "kNoReason"
  /\ guards = <<>>
  /\ last = Ran("none", NULL, [calls |-> <<>>, reads |-> <<>>])
  /\ isolate = NoIsolate

Next ==
  \/ GenerateCode
  \/ GeneratePrologue
  \/ \E instr \in Instructions(hydrogen_env) : GenerateBodyInstruction(instr)
  \/ GenerateBodyEnd
  \/ GenerateDeferredBlock
  \/ GenerateDeferredEnd
  \/ GenerateJumpTable
  \/ GenerateSafepointTable

Spec == Init /\ [][Next]_vars

\* ------------------------------------------ units with deferred code (SpecDf)
MaxDeferredInstr == 4

\* the instructions of a chunk that register deferred code or an environment
DeferredInstructions(henv) ==
  { i \in Instructions(henv) : \/ i.op = "CheckMaps" /\ i.HasMigrationTarget
                               \/ i.op = "Deoptimize" /\ i.type = "EAGER" }

NextDf ==
  \/ GenerateCode
  \/ GeneratePrologue
  \/ \E instr \in DeferredInstructions(hydrogen_env) :
       GenerateBodyInstructionOf(instr, MaxDeferredInstr)
  \/ GenerateBodyEnd
  \/ GenerateDeferredBlock
  \/ GenerateDeferredEnd
  \/ GenerateJumpTable
  \/ GenerateSafepointTable

SpecDf == Init /\ [][NextDf]_vars

\* ----------------------------------- units with constant-key loads (SpecKy)
MaxKeyedInstr == 2

\* keyed loads with a constant key: keys on both sides of 2^28 and with the
\* sign bit set, elements of 4, 8 and 16 bytes
KeyedInstructions ==
  [op : {"LoadKeyed"},
   key : {1, 134217728, 268435455, 268435456, -1},
   elements_kind : {"FAST_ELEMENTS", "FAST_DOUBLE_ELEMENTS", "FLOAT32x4_ELEMENTS"},
   base_offset : {7, 11}]

NextKy ==
  \/ GenerateCode
  \/ GeneratePrologue
  \/ \E instr \in KeyedInstructions \cup DeferredInstructions(hydrogen_env) :
       GenerateBodyInstructionOf(instr, MaxKeyedInstr)
  \/ GenerateBodyEnd
  \/ GenerateDeferredBlock
  \/ GenerateDeferredEnd
  \/ GenerateJumpTable
  \/ GenerateSafepointTable

SpecKy == Init /\ [][NextKy]_vars

\* ------------------------------- map checks generated and then run (SpecCm)
MaxCheckMaps == 2

\* the maps a CheckMaps compares against, and the maps an object can have
CheckedMaps == {1, 2}
ObjectMaps == CheckedMaps \cup {3}

\* a UniqueSet<Map> of one or two maps
UniqueSets ==
  {<<a>> : a \in CheckedMaps} \cup {m \in CheckedMaps \X CheckedMaps : m[1] # m[2]}

CheckMapsInstructions ==
  [op : {"CheckMaps"}, env : {3}, HasMigrationTarget : BOOLEAN, maps : UniqueSets]

\* a function with its frame, or a stub whose deferred code builds the frame
InitCm ==
  /\ Init
  /\ ~cfg.FLAG_trace_deopt /\ ~cfg.is_profiling
  /\ cfg.IsStub = cfg.NeedsDeferredFrame

\* the position at which the label is bound in the buffer
BoundAt(op, a) == CHOOSE k \in 1..Len(masm) : masm[k].op = op /\ masm[k].a = a

\* the positions at which the code of a CheckMaps begins
CheckMapsEntries ==
  { k \in 1..Len(masm) :
      \/ masm[k].op = "bind_check_maps"
      \/ /\ masm[k].op = "cmp_map"
         /\ (k = 1 \/ masm[k - 1].op \notin {"bind_check_maps", "j_success"}) }

\* the condition of the guard emitted at position k
GuardAt(k) == guards[CHOOSE i \in 1..Len(guards) : guards[i].at = k]

Running == isolate # NoIsolate /\ isolate.state = "running"

\* the finished code is entered at a CheckMaps with an object of some map
EnterCheckMaps(k, map) ==
  /\ phase = "finished" /\ result = "true" /\ isolate = NoIsolate
  /\ k \in CheckMapsEntries
  /\ isolate' = [snapshot_blob |-> NoBlob, state |-> "running", pc |-> k,
                 entered |-> k, map |-> map, equal |-> FALSE, zero |-> FALSE,
                 eax_smi |-> FALSE, migrated |-> FALSE, reason |-> "kNoReason"]
  /\ UNCHANGED <<status_, phase, result, cfg, masm, frame_is_built_,
                 last_lazy_deopt_pc_, current_instruction_, deferred_, deferred_index,
                 jump_table_, environments, translations_, deoptimizations_,
                 deoptimization_literals_, safepoints_, bailout_reason, hydrogen_env,
                 guards, last>>

\* the machine after the instruction at pc, the runtime call migrating the
\* object to migrated_map, or failing and returning a smi when that is NULL
Executed(m, migrated_map) ==
  LET c == masm[m.pc]
      next == [m EXCEPT !.pc = @ + 1]
  IN CASE c.op = "cmp_map" -> [next EXCEPT !.equal = (m.map = c.a)]
       [] c.op = "j_success" ->
            IF m.equal THEN [m EXCEPT !.pc = BoundAt("bind_success", c.a)] ELSE next
       [] c.op = "j_deferred" ->
            IF ~m.equal THEN [m EXCEPT !.pc = BoundAt("bind_entry", c.a)] ELSE next
       [] c.op = "bind_success" -> [m EXCEPT !.state = "success"]
       [] c.op = "call_runtime" ->
            IF migrated_map = NULL THEN [next EXCEPT !.eax_smi = TRUE]
            ELSE [next EXCEPT !.eax_smi = FALSE, !.map = migrated_map, !.migrated = TRUE]
       [] c.op = "test" -> [next EXCEPT !.zero = m.eax_smi]
       [] c.op = "j_table" ->
            IF (GuardAt(m.pc).cc = "zero" /\ m.zero)
               \/ (GuardAt(m.pc).cc = "not_equal" /\ ~m.equal)
            THEN [m EXCEPT !.state = "deoptimized",
                           !.reason = GuardAt(m.pc).reason]
            ELSE next
       [] c.op = "jmp_exit" -> [m EXCEPT !.pc = BoundAt("bind_check_maps", c.a)]
       [] OTHER -> next

\* the processor executes the instruction at pc
ExecuteInstruction(migrated_map) ==
  /\ Running
  /\ (masm[isolate.pc].op # "call_runtime" => migrated_map = NULL)
  /\ isolate' = Executed(isolate, migrated_map)
  /\ UNCHANGED <<status_, phase, result, cfg, masm, frame_is_built_,
                 last_lazy_deopt_pc_, current_instruction_, deferred_, deferred_index,
                 jump_table_, environments, translations_, deoptimizations_,
                 deoptimization_literals_, safepoints_, bailout_reason, hydrogen_env,
                 guards, last>>

NextCm ==
  \/ GenerateCode
  \/ GeneratePrologue
  \/ \E instr \in CheckMapsInstructions : GenerateBodyInstructionOf(instr, MaxCheckMaps)
  \/ GenerateBodyEnd
  \/ GenerateDeferredBlock
  \/ GenerateDeferredEnd
  \/ GenerateJumpTable
  \/ GenerateSafepointTable
  \/ \E k \in 1..Len(masm), map \in ObjectMaps : EnterCheckMaps(k, map)
  \/ \E migrated_map \in ObjectMaps \cup {NULL} : ExecuteInstruction(migrated_map)

SpecCm == InitCm /\ [][NextCm]_vars

\* ------------------------------------------- registration on its own (SpecTr)
\* every kind of value an environment slot can hold, with its representation
LeafKinds ==
  { <<"STACK_SLOT", "tagged">>, <<"STACK_SLOT", "int32">>, <<"STACK_SLOT", "uint32">>,
    <<"DOUBLE_STACK_SLOT", "double">>, <<"FLOAT32x4_STACK_SLOT", "float32x4">>,
    <<"FLOAT64x2_STACK_SLOT", "float64x2">>, <<"INT32x4_STACK_SLOT", "int32x4">>,
    <<"REGISTER", "tagged">>, <<"REGISTER", "int32">>, <<"REGISTER", "uint32">>,
    <<"DOUBLE_REGISTER", "double">>, <<"FLOAT32x4_REGISTER", "float32x4">>,
    <<"FLOAT64x2_REGISTER", "float64x2">>, <<"INT32x4_REGISTER", "int32x4">>,
    <<"CONSTANT_OPERAND", "tagged">>, <<"CONSTANT_OPERAND", "int32">> }

Leaves == {HVal(k[1], 5, k[2]) : k \in LeafKinds}

UnitRegister == HVal("REGISTER", 4, "uint32")

\* an environment of an instruction that has nothing to do with the first chain
ExtraEnvironment ==
  HEnv(NULL, "JS_FUNCTION", 0, 30, <<HVal("CONSTANT_OPERAND", 1, "tagged")>>)

\* the chain outers (outermost first) followed by the environment of the instruction
Chain(outers, slots) ==
  outers \o <<HEnv(Len(outers), "JS_FUNCTION", 0, 20, slots)>>

\* the outer environments of an inlined function: none, the caller capturing o1, or
\* the caller and an arguments adaptor frame
Outers(o1) ==
  { <<>>,
    <<HEnv(NULL, "JS_FUNCTION", 1, 10, <<o1>>)>>,
    <<HEnv(NULL, "JS_FUNCTION", 1, 10, <<UnitConstant>>),
      HEnv(1, "ARGUMENTS_ADAPTOR", 0, 15, <<UnitRegister>>)>> }

Objects1 ==
  {HObj(1, args, fields) : args \in BOOLEAN, fields \in SeqsUpTo({UnitRegister}, MaxFields)}

Objects2(o1) ==
  {HObj(2, FALSE, fields) : fields \in SeqsUpTo({UnitConstant, o1}, MaxFields)}

\* environments with nested and repeated objects: a plain slot, then objects
StructuredUnits ==
  UNION { UNION {
    { Chain(outers, <<UnitRegister>> \o slots) :
        outers \in Outers(o1), slots \in SeqsUpTo({o1, o2}, MaxSlots) }
    : o2 \in Objects2(o1) } : o1 \in Objects1 }

\* two instructions with environments holding each kind of value, as a slot and as
\* a field of an object
LeafUnits ==
  { <<HEnv(NULL, "JS_FUNCTION", 0, 20, <<x>>),
      HEnv(NULL, "JS_FUNCTION", 0, 30, <<HObj(1, FALSE, <<x>>), x>>)>> : x \in Leaves }
  \cup { <<ExtraEnvironment, HEnv(NULL, "JS_FUNCTION", 0, 20, <<UnitObject, UnitObject>>)>> }

HydrogenUnits == StructuredUnits \cup LeafUnits

UnitConfiguration ==
  [IsStub |-> FALSE, NeedsEagerFrame |-> TRUE, NeedsDeferredFrame |-> FALSE,
   FLAG_trace_deopt |-> FALSE, is_profiling |-> FALSE,
   DeoptEveryNTimes |-> FALSE, ShouldTrapOnDeopt |-> FALSE]

\* the code generator in the middle of the body of a unit with the given environments
InBody(config, henv) ==
  /\ status_ = "GENERATING" /\ phase = "body" /\ result = "none"
  /\ cfg = config
  /\ masm = <<Ins("prologue", 0, 0)>> /\ frame_is_built_ = TRUE
  /\ last_lazy_deopt_pc_ = 0
  /\ current_instruction_ = 0 /\ deferred_ = <<>> /\ deferred_index = 0
  /\ jump_table_ = <<>>
  /\ hydrogen_env = henv
  /\ environments = BuildEnvironments(henv, 1, <<>>)
  /\ translations_ = <<>> /\ deoptimizations_ = <<>>
  /\ deoptimization_literals_ = <<>> /\ safepoints_ = <<>>
  /\ bailout_reason = "kNoReason"
  /\ guards = <<>>
  /\ last = Ran("none", NULL, [calls |-> <<>>, reads |-> <<>>])
  /\ isolate = NoIsolate

InitTr == \E henv \in HydrogenUnits : InBody(UnitConfiguration, henv)

\* a call of LCodeGen::RegisterEnvironmentForDeoptimization(environment, mode)
RegisterEnvironment(e, mode) ==
  /\ Commit(Register(G, e, mode))
  /\ last' = [Ran("RegisterEnvironmentForDeoptimization", e, Register(G, e, mode))
                EXCEPT !.mode = mode]
  /\ UNCHANGED <<phase, result, cfg, hydrogen_env, current_instruction_, deferred_index>>

\* code emitted between two registrations
EmitCode ==
  /\ Len(masm) <= MaxCode
  /\ Step(Asm(G, Ins("mov", 0, 0)), "EmitCode", NULL)
  /\ UNCHANGED <<phase, result, cfg, hydrogen_env, current_instruction_, deferred_index>>

NextTr ==
  \/ \E e \in InstructionEnvironments(hydrogen_env),
        mode \in {"kNoLazyDeopt", "kLazyDeopt"} : RegisterEnvironment(e, mode)
  \/ EmitCode

SpecTr == InitTr /\ [][NextTr]_vars

\* --------------------------------------------- safepoints on their own (SpecSp)
PointerOperands ==
  { LOperand("STACK_SLOT", 0), LOperand("STACK_SLOT", 1),
    LOperand("REGISTER", 4), LOperand("DOUBLE_STACK_SLOT", 0) }

\* the pointer maps the register allocator hands over: any operands in any order,
\* possibly repeated, some of them marked untagged afterwards
PointerMaps ==
  { PointerMap(ops, untagged) :
      ops \in SeqsUpTo(PointerOperands, MaxPointers),
      untagged \in {<<>>, <<LOperand("STACK_SLOT", 1)>>, <<LOperand("REGISTER", 4)>>} }

\* cfg also holds the pointer map of the unit's call instructions
InitSp ==
  \E pointers \in PointerMaps :
    InBody([pointer_map |-> pointers] @@ UnitConfiguration, <<ExtraEnvironment>>)

\* LCodeGen::CallRuntime(fun, argc, instr, save_doubles)
CallRuntime ==
  /\ Len(safepoints_) < MaxSafepoints
  /\ Step(DoCallRuntime(G, cfg, [pointer_map |-> cfg.pointer_map]), "CallRuntime", NULL)
  /\ UNCHANGED <<phase, result, cfg, hydrogen_env, current_instruction_, deferred_index>>

\* LCodeGen::CallCodeGeneric(code, mode, instr, safepoint_mode)
CallCodeGeneric(safepoint_mode) ==
  /\ Len(safepoints_) < MaxSafepoints
  /\ Step(RecordSafepointWithLazyDeopt(Asm(G, Ins("call_code", 0, 0)), cfg.pointer_map,
                                       safepoint_mode),
          "CallCodeGeneric", NULL)
  /\ UNCHANGED <<phase, result, cfg, hydrogen_env, current_instruction_, deferred_index>>

\* LCodeGen::CallRuntimeFromDeferred(id, argc, instr, context)
CallRuntimeFromDeferred(argc) ==
  /\ Len(safepoints_) < MaxSafepoints
  /\ Step(RecordSafepointWithRegisters(
            Asm(Asm(G, Ins("mov", 0, 0)), Ins("call_runtime", 0, 0)),
            cfg.pointer_map, argc, "kNoLazyDeopt"),
          "CallRuntimeFromDeferred", NULL)
  /\ UNCHANGED <<phase, result, cfg, hydrogen_env, current_instruction_, deferred_index>>

NextSp ==
  \/ CallRuntime
  \/ \E safepoint_mode \in {"RECORD_SIMPLE_SAFEPOINT",
                            "RECORD_SAFEPOINT_WITH_REGISTERS_AND_NO_ARGUMENTS"} :
       CallCodeGeneric(safepoint_mode)
  \/ \E argc \in {0, 1} : CallRuntimeFromDeferred(argc)

SpecSp == InitSp /\ [][NextSp]_vars


\* ------------------------------------------------ branches on their own (SpecBr)
MaxBlocks == 3

Blocks == 0..(MaxBlocks - 1)

\* LChunk::LookupDestination: follow the replacements of the labels of empty blocks
RECURSIVE LookupDestination(_, _)
LookupDestination(chunk, block_id) ==
  IF chunk.replacement[block_id] = -1 THEN block_id
  ELSE LookupDestination(chunk, chunk.replacement[block_id])

\* LCodeGenBase::GetNextEmittedBlock: the first later block that is not replaced
GetNextEmittedBlock(chunk) ==
  IF \E i \in Blocks : i > chunk.current_block_ /\ chunk.replacement[i] = -1
  THEN CHOOSE i \in Blocks :
         /\ i > chunk.current_block_ /\ chunk.replacement[i] = -1
         /\ \A j \in Blocks : (j > chunk.current_block_ /\ chunk.replacement[j] = -1) => i <= j
  ELSE -1

IsNextEmittedBlock(chunk, block_id) ==
  LookupDestination(chunk, block_id) = GetNextEmittedBlock(chunk)

\* LChunk::GetAssemblyLabel: the label bound at the start of the block
GetAssemblyLabel(block) == [block |-> block]

\* LControlInstruction::TrueDestination / FalseDestination
TrueDestination(chunk, instr) == LookupDestination(chunk, instr.true_block_id)
FalseDestination(chunk, instr) == LookupDestination(chunk, instr.false_block_id)

\* NegateCondition(cc): cc ^ 1
NegateCondition(cc) ==
  CASE cc = "equal" -> "not_equal"           [] cc = "not_equal" -> "equal"
    [] cc = "below" -> "above_equal"         [] cc = "above_equal" -> "below"
    [] cc = "below_equal" -> "above"         [] cc = "above" -> "below_equal"
    [] cc = "less" -> "greater_equal"        [] cc = "greater_equal" -> "less"
    [] cc = "less_equal" -> "greater"        [] cc = "greater" -> "less_equal"
    [] cc = "parity_even" -> "parity_odd"    [] cc = "parity_odd" -> "parity_even"
    [] cc = "overflow" -> "no_overflow"      [] cc = "no_overflow" -> "overflow"
    [] cc = "sign" -> "not_sign"             [] cc = "not_sign" -> "sign"

\* CommuteCondition(cc): the condition for the operands swapped
CommuteCondition(cc) ==
  CASE cc = "below" -> "above"               [] cc = "above" -> "below"
    [] cc = "above_equal" -> "below_equal"   [] cc = "below_equal" -> "above_equal"
    [] cc = "less" -> "greater"              [] cc = "greater" -> "less"
    [] cc = "less_equal" -> "greater_equal"  [] cc = "greater_equal" -> "less_equal"
    [] OTHER -> cc

\* LCodeGen::EmitGoto
EmitGoto(g, chunk, block) ==
  IF ~IsNextEmittedBlock(chunk, block)
  THEN Asm(g, Ins("jmp", GetAssemblyLabel(LookupDestination(chunk, block)), 0))
  ELSE g

\* EmitBranch that jumps on the condition itself when the true block is next
EmitBranchNoNegation(g, chunk, cc, left_block, right_block, next_block) ==
  IF right_block = left_block \/ cc = "no_condition"
  THEN EmitGoto(g, chunk, left_block)
  ELSE IF left_block = next_block
  THEN Asm(g, Ins("j", cc, GetAssemblyLabel(right_block)))
  ELSE IF right_block = next_block
  THEN Asm(g, Ins("j", cc, GetAssemblyLabel(left_block)))
  ELSE Asm(Asm(g, Ins("j", cc, GetAssemblyLabel(left_block))),
           Ins("jmp", GetAssemblyLabel(right_block), 0))

\* EmitBranch that does not fold a branch with one destination
EmitBranchNoFold(g, chunk, cc, left_block, right_block, next_block) ==
  IF cc = "no_condition" THEN EmitGoto(g, chunk, left_block)
  ELSE IF left_block = next_block
  THEN Asm(g, Ins("j", NegateCondition(cc), GetAssemblyLabel(right_block)))
  ELSE IF right_block = next_block
  THEN Asm(g, Ins("j", cc, GetAssemblyLabel(left_block)))
  ELSE Asm(Asm(g, Ins("j", cc, GetAssemblyLabel(left_block))),
           Ins("jmp", GetAssemblyLabel(right_block), 0))

\* LCodeGen::EmitBranch, the code it emits
EmitBranchCode(g, chunk, cc, left_block, right_block, next_block) ==
  IF right_block = left_block \/ cc = "no_condition"
  THEN EmitGoto(g, chunk, left_block)
  ELSE IF left_block = next_block
  THEN Asm(g, Ins("j", NegateCondition(cc), GetAssemblyLabel(right_block)))
  ELSE IF right_block = next_block
  THEN Asm(g, Ins("j", cc, GetAssemblyLabel(left_block)))
  ELSE Asm(Asm(g, Ins("j", cc, GetAssemblyLabel(left_block))),
           Ins("jmp", GetAssemblyLabel(right_block), 0))

\* the call of EmitBranch noted in the log: its condition and the code it added
BranchCalled(g, from, instr, cc) ==
  [g EXCEPT !.calls = Append(@, [fn |-> "EmitBranch", instr |-> instr, cc |-> cc,
                                 code |-> SubSeq(g.masm, from + 1, Len(g.masm))])]

\* LCodeGen::EmitBranch
EmitBranch(g, chunk, instr, cc) ==
  BranchCalled(EmitBranchCode(g, chunk, cc, TrueDestination(chunk, instr),
                              FalseDestination(chunk, instr), GetNextEmittedBlock(chunk)),
               Len(g.masm), instr, cc)

\* LCodeGen::TokenToCondition
TokenToCondition(op, is_unsigned) ==
  CASE op \in {"EQ", "EQ_STRICT"} -> "equal"
    [] op \in {"NE", "NE_STRICT"} -> "not_equal"
    [] op = "LT" -> IF is_unsigned THEN "below" ELSE "less"
    [] op = "GT" -> IF is_unsigned THEN "above" ELSE "greater"
    [] op = "LTE" -> IF is_unsigned THEN "below_equal" ELSE "less_equal"
    [] op = "GTE" -> IF is_unsigned THEN "above_equal" ELSE "greater_equal"

\* the constants of the chunk: LChunk::LookupConstant(op) for operand index 0..8
\* Machine words are WordBits wide and read as two's-complement integers.
WordBits == 4

kMinInt == -(2^(WordBits - 1))
kMaxInt == 2^(WordBits - 1) - 1
Words == kMinInt..kMaxInt

Double(v) == [nan |-> FALSE, v |-> v]
NaN == [nan |-> TRUE, v |-> 0]
ChunkConstants ==
  <<NaN, Double(1), Double(-1), Double(0), Double(2), Double(3), Double(4),
    Double(kMaxInt), Double(kMinInt)>>
LookupConstant(op) == ChunkConstants[op.index + 1]
IsConstantOperand(op) == op.kind = "CONSTANT_OPERAND"

\* LCodeGen::ToDouble(LConstantOperand*)
ToDouble(op) == LookupConstant(op)

\* Smi::FromInt reinterpreted as a word: the value shifted left by the tag size
SmiFromInt(value) == 2 * value

\* LCodeGen::ToRepresentation
ToRepresentation(op, r) ==
  IF r = "Integer32" THEN LookupConstant(op).v ELSE SmiFromInt(LookupConstant(op).v)

\* LCodeGen::ToImmediate
ToImmediate(op, r) == [imm |-> ToRepresentation(op, r)]

\* EvalComparison(op, op1, op2) on doubles: every ordered test fails on a NaN
EvalComparison(op, op1, op2) ==
  IF op1.nan \/ op2.nan THEN op \in {"NE", "NE_STRICT"}
  ELSE CASE op \in {"EQ", "EQ_STRICT"} -> op1.v = op2.v
         [] op \in {"NE", "NE_STRICT"} -> op1.v # op2.v
         [] op = "LT" -> op1.v < op2.v
         [] op = "GT" -> op1.v > op2.v
         [] op = "LTE" -> op1.v <= op2.v
         [] op = "GTE" -> op1.v >= op2.v

\* the operand compared in place: a register or a stack slot
ToOperand(op) ==
  IF op.kind = "REGISTER" THEN [reg |-> ToRegister(op)] ELSE [slot |-> op.index]

\* DoCompareNumericAndBranch basing the double comparison on EFLAGS alone
CompareAndBranchNoParityJump(g, chunk, instr, cc) ==
  IF instr.is_double
  THEN EmitBranch(Asm(g, Ins("ucomisd", ToDoubleRegister(instr.left),
                             ToDoubleRegister(instr.right))),
                  chunk, instr, cc)
  ELSE IF IsConstantOperand(instr.right)
  THEN EmitBranch(Asm(g, Ins("cmp", ToOperand(instr.left),
                             ToImmediate(instr.right, instr.representation))),
                  chunk, instr, cc)
  ELSE IF IsConstantOperand(instr.left)
  THEN EmitBranch(Asm(g, Ins("cmp", ToOperand(instr.right),
                             ToImmediate(instr.left, instr.representation))),
                  chunk, instr, CommuteCondition(cc))
  ELSE EmitBranch(Asm(g, Ins("cmp", [reg |-> ToRegister(instr.left)],
                             ToOperand(instr.right))),
                  chunk, instr, cc)

\* LCodeGen::DoCompareNumericAndBranch, the comparison made at run time
CompareAndBranch(g, chunk, instr, cc) ==
  IF instr.is_double
  THEN EmitBranch(Asm(Asm(g, Ins("ucomisd", ToDoubleRegister(instr.left),
                                 ToDoubleRegister(instr.right))),
                      Ins("j", "parity_even",
                          GetAssemblyLabel(FalseDestination(chunk, instr)))),
                  chunk, instr, cc)
  ELSE IF IsConstantOperand(instr.right)
  THEN EmitBranch(Asm(g, Ins("cmp", ToOperand(instr.left),
                             ToImmediate(instr.right, instr.representation))),
                  chunk, instr, cc)
  ELSE IF IsConstantOperand(instr.left)
  THEN EmitBranch(Asm(g, Ins("cmp", ToOperand(instr.right),
                             ToImmediate(instr.left, instr.representation))),
                  chunk, instr, CommuteCondition(cc))
  ELSE EmitBranch(Asm(g, Ins("cmp", [reg |-> ToRegister(instr.left)],
                             ToOperand(instr.right))),
                  chunk, instr, cc)

\* LCodeGen::DoCompareNumericAndBranch
DoCompareNumericAndBranch(g, chunk, instr) ==
  IF IsConstantOperand(instr.left) /\ IsConstantOperand(instr.right)
  THEN EmitGoto(g, chunk,
                IF EvalComparison(instr.op, ToDouble(instr.left), ToDouble(instr.right))
                THEN TrueDestination(chunk, instr)
                ELSE FalseDestination(chunk, instr))
  ELSE CompareAndBranch(g, chunk, instr,
                        TokenToCondition(instr.op,
                                         instr.is_double \/ instr.left_uint32
                                           \/ instr.right_uint32))

\* LCodeGen::DoCmpObjectEqAndBranch
DoCmpObjectEqAndBranch(g, chunk, instr) ==
  EmitBranch(Asm(g, Ins("cmp", [reg |-> ToRegister(instr.left)],
                        IF IsConstantOperand(instr.right)
                        THEN [handle |-> ConstantHandle(instr.right.index)]
                        ELSE ToOperand(instr.right))),
             chunk, instr, "equal")

\* LCodeGen::DoGoto
DoGoto(g, chunk, instr) == EmitGoto(g, chunk, instr.block_id)

\* the chunks: every block may be an empty block replaced by a later one, and the
\* block being emitted is not replaced
Chunks ==
  { [replacement |-> r, current_block_ |-> b] @@ UnitConfiguration :
      r \in { f \in [Blocks -> Blocks \cup {-1}] :
                \A i \in Blocks : f[i] = -1 \/ f[i] > i },
      b \in Blocks }

Tokens == {"EQ", "NE", "LT", "GT", "LTE", "GTE"}

\* LCompareNumericAndBranch: doubles in two xmm registers or two constants,
\* integers in a register, a stack slot or a constant
CompareInstructions ==
  [op : Tokens, is_double : {TRUE},
   left : {LOperand("DOUBLE_REGISTER", 0)}, right : {LOperand("DOUBLE_REGISTER", 1)},
   left_uint32 : {FALSE}, right_uint32 : {FALSE}, representation : {"Double"},
   true_block_id : Blocks, false_block_id : Blocks]
  \cup
  [op : Tokens, is_double : {TRUE},
   left : {LOperand("CONSTANT_OPERAND", 0), LOperand("CONSTANT_OPERAND", 1)},
   right : {LOperand("CONSTANT_OPERAND", 0), LOperand("CONSTANT_OPERAND", 3)},
   left_uint32 : {FALSE}, right_uint32 : {FALSE}, representation : {"Double"},
   true_block_id : Blocks, false_block_id : Blocks]
  \cup
  [op : Tokens, is_double : {FALSE},
   left : {LOperand("REGISTER", 0), LOperand("CONSTANT_OPERAND", 2)},
   right : {LOperand("REGISTER", 1), LOperand("STACK_SLOT", 0),
            LOperand("CONSTANT_OPERAND", 1)},
   left_uint32 : BOOLEAN, right_uint32 : {FALSE},
   representation : {"Integer32", "Smi"},
   true_block_id : Blocks, false_block_id : Blocks]

\* LCmpObjectEqAndBranch
CmpObjectEqInstructions ==
  [left : {LOperand("REGISTER", 0)},
   right : {LOperand("REGISTER", 1), LOperand("CONSTANT_OPERAND", 1)},
   true_block_id : Blocks, false_block_id : Blocks]

InitBr ==
  \E chunk \in Chunks :
    /\ chunk.replacement[chunk.current_block_] = -1
    /\ InBody(chunk, <<ExtraEnvironment>>)

\* what a lowering did: the instruction and the code it added
Lowered(op, instr, g, from) ==
  [op |-> op, instr |-> instr, env |-> NULL, mode |-> "none", calls |-> g.calls,
   reads |-> g.reads, code |-> SubSeq(g.masm, from + 1, Len(g.masm))]

\* one control instruction of the block is lowered
Lower(op, instr, g) ==
  /\ last.op = "none"
  /\ Commit(g)
  /\ last' = Lowered(op, instr, g, Len(masm))
  /\ UNCHANGED <<phase, result, cfg, hydrogen_env, current_instruction_, deferred_index>>

CompareNumericAndBranch(instr) ==
  Lower("DoCompareNumericAndBranch", instr, DoCompareNumericAndBranch(G, cfg, instr))

CmpObjectEqAndBranch(instr) ==
  Lower("DoCmpObjectEqAndBranch", instr, DoCmpObjectEqAndBranch(G, cfg, instr))

Goto(instr) == Lower("DoGoto", instr, DoGoto(G, cfg, instr))

NextBr ==
  \/ \E instr \in CompareInstructions : CompareNumericAndBranch(instr)
  \/ \E instr \in CmpObjectEqInstructions : CmpObjectEqAndBranch(instr)
  \/ \E instr \in [block_id : Blocks] : Goto(instr)

SpecBr == InitBr /\ [][NextBr]_vars

\* ------------------------------------------------- the emitted code at run time
\* the word that holds the low WordBits bits of x
Wrap(x) == ((x - kMinInt) % (2^WordBits)) + kMinInt

\* the word read as an unsigned number
Unsigned(x) == x % (2^WordBits)

RECURSIVE BitOp(_, _, _, _)
BitOp(f, a, b, n) ==
  IF n = 0 THEN 0
  ELSE (CASE f = "and" -> IF a % 2 = 1 /\ b % 2 = 1 THEN 1 ELSE 0
          [] f = "or" -> IF a % 2 = 1 \/ b % 2 = 1 THEN 1 ELSE 0
          [] f = "xor" -> IF a % 2 # b % 2 THEN 1 ELSE 0)
       + 2 * BitOp(f, a \div 2, b \div 2, n - 1)

\* and, or, xor of two words
Bitwise(f, a, b) == Wrap(BitOp(f, Unsigned(a), Unsigned(b), WordBits))

\* the quotient of a by b rounded towards zero
TruncDiv(a, b) ==
  IF (a < 0) = (b < 0) THEN (IF a < 0 THEN (-a) \div (-b) ELSE a \div b)
  ELSE -((IF a < 0 THEN -a ELSE a) \div (IF b < 0 THEN -b ELSE b))

\* EFLAGS after an instruction with result res
ResultFlags(res, of, cf) ==
  [ZF |-> res = 0, SF |-> res < 0, OF |-> of, CF |-> cf, PF |-> FALSE]

NoFlags == ResultFlags(1, FALSE, FALSE)

\* EFLAGS after ucomisd a, b: an unordered result sets ZF, PF and CF
UcomisdFlags(a, b) ==
  IF a.nan \/ b.nan THEN [ZF |-> TRUE, PF |-> TRUE, CF |-> TRUE, OF |-> FALSE, SF |-> FALSE]
  ELSE [ZF |-> a.v = b.v, PF |-> FALSE, CF |-> a.v < b.v, OF |-> FALSE, SF |-> FALSE]

\* EFLAGS after cmp a, b and after sub
CmpFlags(a, b) ==
  ResultFlags(Wrap(a - b), Wrap(a - b) # a - b, Unsigned(a) < Unsigned(b))

\* whether a jump on condition cc is taken
Holds(cc, flags) ==
  CASE cc \in {"equal", "zero"} -> flags.ZF
    [] cc \in {"not_equal", "not_zero"} -> ~flags.ZF
    [] cc = "below" -> flags.CF                [] cc = "above_equal" -> ~flags.CF
    [] cc = "below_equal" -> flags.CF \/ flags.ZF
    [] cc = "above" -> ~flags.CF /\ ~flags.ZF
    [] cc = "less" -> flags.SF # flags.OF
    [] cc = "greater_equal" -> flags.SF = flags.OF
    [] cc = "less_equal" -> flags.ZF \/ flags.SF # flags.OF
    [] cc = "greater" -> ~flags.ZF /\ flags.SF = flags.OF
    [] cc = "parity_even" -> flags.PF          [] cc = "parity_odd" -> ~flags.PF
    [] cc = "overflow" -> flags.OF             [] cc = "no_overflow" -> ~flags.OF
    [] cc = "sign" -> flags.SF                 [] cc = "not_sign" -> ~flags.SF

\* the address a memory operand [base + index * scale + disp] refers to
EffectiveAddress(m, operand) ==
  Wrap(m.reg[operand.base.reg]
       + operand.scale * (IF "imm" \in DOMAIN operand.index THEN operand.index.imm
                          ELSE m.reg[operand.index.reg])
       + operand.disp)

\* the word an operand of an instruction holds in machine state m
ValueOf(m, operand) ==
  IF "imm" \in DOMAIN operand THEN operand.imm
  ELSE IF "reg" \in DOMAIN operand THEN m.reg[operand.reg]
  ELSE IF "slot" \in DOMAIN operand THEN m.slot[operand.slot]
  ELSE IF "base" \in DOMAIN operand THEN m.mem[EffectiveAddress(m, operand)]
  ELSE operand.handle

\* the block control reaches when the code of a control instruction runs in
\* machine state m and the block emitted next is next_block
RECURSIVE Exec(_, _, _, _, _)
Exec(code, i, m, flags, next_block) ==
  IF i > Len(code) THEN next_block
  ELSE IF code[i].op = "jmp" THEN code[i].a.block
  ELSE IF code[i].op = "j"
  THEN IF Holds(code[i].a, flags) THEN code[i].b.block
       ELSE Exec(code, i + 1, m, flags, next_block)
  ELSE IF code[i].op = "ucomisd"
  THEN Exec(code, i + 1, m, UcomisdFlags(m.xmm[code[i].a], m.xmm[code[i].b]), next_block)
  ELSE IF code[i].op = "cmp"
  THEN Exec(code, i + 1, m, CmpFlags(ValueOf(m, code[i].a), ValueOf(m, code[i].b)),
            next_block)
  ELSE Exec(code, i + 1, m, flags, next_block)

\* machine state m with word v written to the operand and the flags set
Written(m, operand, v, flags) ==
  IF "reg" \in DOMAIN operand
  THEN [m EXCEPT !.reg[operand.reg] = v, !.flags = flags]
  ELSE [m EXCEPT !.slot[operand.slot] = v, !.flags = flags]

eax == 0
edx == 2

\* the bytes of a machine word
kPointerSize == 4

\* edx:eax as one number
DoubleWord(m) == m.reg[edx] * (2^WordBits) + Unsigned(m.reg[eax])

\* idiv signals a divide error on a zero divisor and on a quotient out of range
DivideError(m, divisor) ==
  \/ divisor = 0
  \/ TruncDiv(DoubleWord(m), divisor) \notin Words

\* the machine state after one straight-line instruction
Apply(m, item) ==
  LET a == ValueOf(m, item.a)
      b == ValueOf(m, item.b)
  IN CASE item.op = "mov" -> Written(m, item.a, b, m.flags)
       [] item.op = "lea" -> Written(m, item.a, Wrap(ValueOf(m, item.b.base)
                                                     + item.b.scale * ValueOf(m, item.b.index)
                                                     + item.b.disp), m.flags)
       [] item.op = "test" -> [m EXCEPT !.flags = ResultFlags(Bitwise("and", a, b), FALSE, FALSE)]
       [] item.op = "cmp" -> [m EXCEPT !.flags = CmpFlags(a, b)]
       [] item.op = "add" ->
            Written(m, item.a, Wrap(a + b),
                    ResultFlags(Wrap(a + b), Wrap(a + b) # a + b,
                                Unsigned(a) + Unsigned(b) >= 2^WordBits))
       [] item.op = "sub" -> Written(m, item.a, Wrap(a - b), CmpFlags(a, b))
       [] item.op = "dec" ->
            Written(m, item.a, Wrap(a - 1),
                    ResultFlags(Wrap(a - 1), a = kMinInt, m.flags.CF))
       [] item.op = "neg" ->
            Written(m, item.a, Wrap(-a), ResultFlags(Wrap(-a), a = kMinInt, a # 0))
       [] item.op = "imul" ->
            Written(m, item.a, Wrap(a * b),
                    ResultFlags(Wrap(a * b), Wrap(a * b) # a * b, Wrap(a * b) # a * b))
       [] item.op \in {"and", "or", "xor"} ->
            Written(m, item.a, Bitwise(item.op, a, b),
                    ResultFlags(Bitwise(item.op, a, b), FALSE, FALSE))
       [] item.op = "sar" ->
            Written(m, item.a, a \div (2^b), ResultFlags(a \div (2^b), FALSE, FALSE))
       [] item.op = "shr" ->
            Written(m, item.a, Wrap(Unsigned(a) \div (2^b)),
                    ResultFlags(Wrap(Unsigned(a) \div (2^b)), FALSE, FALSE))
       [] item.op = "shl" ->
            Written(m, item.a, Wrap(a * (2^b)), ResultFlags(Wrap(a * (2^b)), FALSE, FALSE))
       [] item.op = "cdq" ->
            [m EXCEPT !.reg[edx] = IF m.reg[eax] < 0 THEN -1 ELSE 0]
       [] item.op = "idiv" ->
            [m EXCEPT !.reg[eax] = TruncDiv(DoubleWord(m), a),
                      !.reg[edx] = DoubleWord(m) - a * TruncDiv(DoubleWord(m), a)]
       [] item.op = "movsd" ->
            [m EXCEPT !.xmm[item.a] =
                        [lower |-> m.mem[EffectiveAddress(m, item.b)],
                         upper |-> m.mem[Wrap(EffectiveAddress(m, item.b) + kPointerSize)]]]
       [] item.op = "TruncatingDiv" ->
            [m EXCEPT !.reg[edx] = TruncDiv(a, b), !.reg[eax] = 0]
       [] OTHER -> m

\* the position of the bound label a near jump goes to
LabelIndex(code, label) == CHOOSE j \in 1..Len(code) : code[j] = Ins("bind", label, 0)

GuardsAt(gds, i) == {k \in 1..Len(gds) : gds[k].at = i}

\* the outcome of running the code from position i in machine state m: the code
\* runs to its end, a deopt guard is taken, or the processor traps
RECURSIVE Run(_, _, _, _)
Run(code, gds, i, m) ==
  IF i > Len(code) THEN [kind |-> "done", m |-> m]
  ELSE IF GuardsAt(gds, i) # {}
  THEN LET guard == gds[CHOOSE k \in GuardsAt(gds, i) : TRUE]
       IN IF guard.cc = "no_condition" \/ Holds(guard.cc, m.flags)
          THEN [kind |-> "deopt", reason |-> guard.reason, m |-> m]
          ELSE Run(code, gds, i + 1, m)
  ELSE IF code[i].op = "jmp" THEN Run(code, gds, LabelIndex(code, code[i].a), m)
  ELSE IF code[i].op = "j"
  THEN Run(code, gds, IF Holds(code[i].a, m.flags) THEN LabelIndex(code, code[i].b)
                      ELSE i + 1, m)
  ELSE IF code[i].op = "idiv" /\ DivideError(m, ValueOf(m, code[i].a))
  THEN [kind |-> "fault", m |-> m]
  ELSE IF code[i].op = "int3" THEN [kind |-> "trap", m |-> m]
  ELSE Run(code, gds, i + 1, Apply(m, code[i]))

\* --------------------------------------------- integer arithmetic (SpecAr)
Emits(g, items) == [g EXCEPT !.masm = @ \o items]

Reg(op) == [reg |-> ToRegister(op)]
Imm(value) == [imm |-> value]

\* HValue::CheckFlag
CheckFlag(instr, flag) == flag \in instr.flags

\* "if (flag) DeoptimizeIf(cc, instr, reason)"
GuardIf(flag, g, config, cc, instr, deopt_reason) ==
  IF flag THEN DeoptimizeIfDefault(g, config, cc, instr.env, deopt_reason) ELSE g

Abs(a) == IF a < 0 THEN -a ELSE a

\* WhichPowerOf2Abs: the exponent of a power of two or of its negation
WhichPowerOf2Abs(x) == CHOOSE k \in 0..(WordBits - 1) : 2^k = Abs(x)

\* "int32_t mask = divisor < 0 ? -(divisor + 1) : (divisor - 1)"
MaskOf(divisor) == IF divisor < 0 THEN -(divisor + 1) ELSE divisor - 1

\* LCodeGen::DoModByPowerOf2I
DoModByPowerOf2I(g, config, instr) ==
  Emits(IF CheckFlag(instr, "kLeftCanBeNegative")
        THEN Emits(GuardIf(CheckFlag(instr, "kBailoutOnMinusZero"),
                           Emits(g, <<Ins("test", Reg(instr.dividend), Reg(instr.dividend)),
                                      Ins("j", "not_sign", "dividend_is_not_negative"),
                                      Ins("neg", Reg(instr.dividend), 0),
                                      Ins("and", Reg(instr.dividend), Imm(MaskOf(instr.divisor))),
                                      Ins("neg", Reg(instr.dividend), 0)>>),
                           config, "zero", instr, "kMinusZero"),
                   <<Ins("jmp", "done", 0)>>)
        ELSE g,
        <<Ins("bind", "dividend_is_not_negative", 0),
          Ins("and", Reg(instr.dividend), Imm(MaskOf(instr.divisor))),
          Ins("bind", "done", 0)>>)

\* DoModByConstI, the check for negative zero
ModByConstMinusZero(g, config, instr) ==
  IF CheckFlag(instr, "kBailoutOnMinusZero")
  THEN Emits(DeoptimizeIfDefault(
               Emits(g, <<Ins("j", "not_zero", "remainder_not_zero"),
                          Ins("cmp", Reg(instr.dividend), Imm(0))>>),
               config, "less", instr.env, "kMinusZero"),
             <<Ins("bind", "remainder_not_zero", 0)>>)
  ELSE g

\* LCodeGen::DoModByConstI
DoModByConstI(g, config, instr) ==
  IF instr.divisor = 0
  THEN DeoptimizeIfDefault(g, config, "no_condition", instr.env, "kDivisionByZero")
  ELSE ModByConstMinusZero(
         Emits(g, <<Ins("TruncatingDiv", Reg(instr.dividend), Imm(Abs(instr.divisor))),
                    Ins("imul", [reg |-> edx], Imm(Abs(instr.divisor))),
                    Ins("mov", [reg |-> eax], Reg(instr.dividend)),
                    Ins("sub", [reg |-> eax], [reg |-> edx])>>),
         config, instr)

\* DoModI, the check for x % 0
ModDivByZero(g, config, instr) ==
  IF CheckFlag(instr, "kCanBeDivByZero")
  THEN DeoptimizeIfDefault(Emits(g, <<Ins("test", Reg(instr.right), Reg(instr.right))>>),
                           config, "zero", instr.env, "kDivisionByZero")
  ELSE g

\* DoModI, the check for kMinInt % -1
ModOverflow(g, config, instr) ==
  IF CheckFlag(instr, "kCanOverflow")
  THEN Emits(IF CheckFlag(instr, "kBailoutOnMinusZero")
             THEN DeoptimizeIfDefault(
                    Emits(g, <<Ins("cmp", Reg(instr.left), Imm(kMinInt)),
                               Ins("j", "not_equal", "no_overflow_possible"),
                               Ins("cmp", Reg(instr.right), Imm(-1))>>),
                    config, "equal", instr.env, "kMinusZero")
             ELSE Emits(g, <<Ins("cmp", Reg(instr.left), Imm(kMinInt)),
                             Ins("j", "not_equal", "no_overflow_possible"),
                             Ins("cmp", Reg(instr.right), Imm(-1)),
                             Ins("j", "not_equal", "no_overflow_possible"),
                             Ins("mov", Reg(instr.result), Imm(0)),
                             Ins("jmp", "done", 0)>>),
             <<Ins("bind", "no_overflow_possible", 0)>>)
  ELSE g

\* DoModI, the division itself, with the test for a negative zero
ModDivide(g, config, instr) ==
  Emits(IF CheckFlag(instr, "kBailoutOnMinusZero")
        THEN Emits(DeoptimizeIfDefault(
                     Emits(g, <<Ins("cdq", 0, 0),
                                Ins("test", Reg(instr.left), Reg(instr.left)),
                                Ins("j", "not_sign", "positive_left"),
                                Ins("idiv", Reg(instr.right), 0),
                                Ins("test", Reg(instr.result), Reg(instr.result))>>),
                     config, "zero", instr.env, "kMinusZero"),
                   <<Ins("jmp", "done", 0), Ins("bind", "positive_left", 0)>>)
        ELSE Emits(g, <<Ins("cdq", 0, 0)>>),
        <<Ins("idiv", Reg(instr.right), 0), Ins("bind", "done", 0)>>)

\* LCodeGen::DoModI
DoModI(g, config, instr) ==
  ModDivide(ModOverflow(ModDivByZero(g, config, instr), config, instr), config, instr)

\* "test(dividend, dividend); DeoptimizeIf(zero, instr, kMinusZero)" for a
\* negative constant divisor
DivMinusZeroByConstant(g, config, instr) ==
  IF CheckFlag(instr, "kBailoutOnMinusZero") /\ instr.divisor < 0
  THEN DeoptimizeIfDefault(
         Emits(g, <<Ins("test", Reg(instr.dividend), Reg(instr.dividend))>>),
         config, "zero", instr.env, "kMinusZero")
  ELSE g

\* DoDivByPowerOf2I, the check for kMinInt / -1
DivByPowerOf2Overflow(g, config, instr) ==
  IF CheckFlag(instr, "kCanOverflow") /\ instr.divisor = -1
  THEN DeoptimizeIfDefault(
         Emits(g, <<Ins("cmp", Reg(instr.dividend), Imm(kMinInt))>>),
         config, "zero", instr.env, "kOverflow")
  ELSE g

\* DoDivByPowerOf2I, the check that the remainder is 0
DivByPowerOf2Precision(g, config, instr) ==
  IF ~CheckFlag(instr, "kAllUsesTruncatingToInt32")
     /\ instr.divisor # 1 /\ instr.divisor # -1
  THEN DeoptimizeIfDefault(
         Emits(g, <<Ins("test", Reg(instr.dividend), Imm(MaskOf(instr.divisor)))>>),
         config, "not_zero", instr.env, "kLostPrecision")
  ELSE g

\* the shifts of DoDivByPowerOf2I without the rounding of negative dividends
DivByPowerOf2ShiftUnbiased(g, instr, shift) ==
  Emits(g,
        <<Ins("mov", Reg(instr.result), Reg(instr.dividend))>>
        \o (IF shift > 0 THEN <<Ins("sar", Reg(instr.result), Imm(shift))>> ELSE <<>>)
        \o (IF instr.divisor < 0 THEN <<Ins("neg", Reg(instr.result), 0)>> ELSE <<>>))

\* DoDivByPowerOf2I, the shifts
DivByPowerOf2Shift(g, instr, shift) ==
  Emits(g,
        <<Ins("mov", Reg(instr.result), Reg(instr.dividend))>>
        \o (IF shift > 1 THEN <<Ins("sar", Reg(instr.result), Imm(WordBits - 1))>> ELSE <<>>)
        \o (IF shift > 0
            THEN <<Ins("shr", Reg(instr.result), Imm(WordBits - shift)),
                   Ins("add", Reg(instr.result), Reg(instr.dividend)),
                   Ins("sar", Reg(instr.result), Imm(shift))>>
            ELSE <<>>)
        \o (IF instr.divisor < 0 THEN <<Ins("neg", Reg(instr.result), 0)>> ELSE <<>>))

\* LCodeGen::DoDivByPowerOf2I
DoDivByPowerOf2I(g, config, instr) ==
  DivByPowerOf2Shift(
    DivByPowerOf2Precision(
      DivByPowerOf2Overflow(DivMinusZeroByConstant(g, config, instr), config, instr),
      config, instr),
    instr, WhichPowerOf2Abs(instr.divisor))

\* "__ TruncatingDiv(dividend, Abs(divisor)); if (divisor < 0) __ neg(edx);"
TruncatingDivBy(g, dividend, divisor) ==
  Emits(g, <<Ins("TruncatingDiv", dividend, Imm(Abs(divisor)))>>
           \o (IF divisor < 0 THEN <<Ins("neg", [reg |-> edx], 0)>> ELSE <<>>))

\* DoDivByConstI, the check that the remainder is 0
DivByConstPrecision(g, config, instr) ==
  IF ~CheckFlag(instr, "kAllUsesTruncatingToInt32")
  THEN DeoptimizeIfDefault(
         Emits(g, <<Ins("mov", [reg |-> eax], [reg |-> edx]),
                    Ins("imul", [reg |-> eax], Imm(instr.divisor)),
                    Ins("sub", [reg |-> eax], Reg(instr.dividend))>>),
         config, "not_equal", instr.env, "kLostPrecision")
  ELSE g

\* LCodeGen::DoDivByConstI
DoDivByConstI(g, config, instr) ==
  IF instr.divisor = 0
  THEN DeoptimizeIfDefault(g, config, "no_condition", instr.env, "kDivisionByZero")
  ELSE DivByConstPrecision(
         TruncatingDivBy(DivMinusZeroByConstant(g, config, instr),
                         Reg(instr.dividend), instr.divisor),
         config, instr)

\* DoDivI and DoFlooringDivI without the check for x / 0
DivByZeroUnchecked(g, config, instr) == g

\* DoDivI and DoFlooringDivI, the check for x / 0
DivByZero(g, config, instr) ==
  IF CheckFlag(instr, "kCanBeDivByZero")
  THEN DeoptimizeIfDefault(
         Emits(g, <<Ins("test", Reg(instr.divisor), Reg(instr.divisor))>>),
         config, "zero", instr.env, "kDivisionByZero")
  ELSE g

\* DoDivI and DoFlooringDivI, the check for 0 / -x
DivMinusZero(g, config, instr) ==
  IF CheckFlag(instr, "kBailoutOnMinusZero")
  THEN Emits(DeoptimizeIfDefault(
               Emits(g, <<Ins("test", Reg(instr.dividend), Reg(instr.dividend)),
                          Ins("j", "not_zero", "dividend_not_zero"),
                          Ins("test", Reg(instr.divisor), Reg(instr.divisor))>>),
               config, "sign", instr.env, "kMinusZero"),
             <<Ins("bind", "dividend_not_zero", 0)>>)
  ELSE g

\* DoDivI and DoFlooringDivI, the check for kMinInt / -1
DivOverflow(g, config, instr) ==
  IF CheckFlag(instr, "kCanOverflow")
  THEN Emits(DeoptimizeIfDefault(
               Emits(g, <<Ins("cmp", Reg(instr.dividend), Imm(kMinInt)),
                          Ins("j", "not_zero", "dividend_not_min_int"),
                          Ins("cmp", Reg(instr.divisor), Imm(-1))>>),
               config, "zero", instr.env, "kOverflow"),
             <<Ins("bind", "dividend_not_min_int", 0)>>)
  ELSE g

\* the checks DoDivI and DoFlooringDivI share, then "cdq; idiv(divisor)"
DivChecked(g, config, instr) ==
  Emits(DivOverflow(DivMinusZero(DivByZero(g, config, instr), config, instr),
                    config, instr),
        <<Ins("cdq", 0, 0), Ins("idiv", Reg(instr.divisor), 0)>>)

\* LCodeGen::DoDivI
DoDivI(g, config, instr) ==
  IF ~CheckFlag(instr, "kAllUsesTruncatingToInt32")
  THEN DeoptimizeIfDefault(
         Emits(DivChecked(g, config, instr),
               <<Ins("test", Reg(instr.temp), Reg(instr.temp))>>),
         config, "not_zero", instr.env, "kLostPrecision")
  ELSE DivChecked(g, config, instr)

\* DoFlooringDivByPowerOf2I for a negative divisor other than -1, after the
\* negation
FlooringShiftNegated(g, instr, shift) ==
  IF ~CheckFlag(instr, "kLeftCanBeMinInt")
  THEN Emits(g, <<Ins("sar", Reg(instr.dividend), Imm(shift))>>)
  ELSE Emits(g, <<Ins("j", "no_overflow", "not_kmin_int"),
                  Ins("mov", Reg(instr.dividend), Imm(TruncDiv(kMinInt, instr.divisor))),
                  Ins("jmp", "done", 0),
                  Ins("bind", "not_kmin_int", 0),
                  Ins("sar", Reg(instr.dividend), Imm(shift)),
                  Ins("bind", "done", 0)>>)

\* DoFlooringDivByPowerOf2I for a negative divisor
FlooringDivByNegativePowerOf2(g, config, instr, shift) ==
  IF instr.divisor = -1
  THEN GuardIf(CheckFlag(instr, "kLeftCanBeMinInt"),
               GuardIf(CheckFlag(instr, "kBailoutOnMinusZero"),
                       Emits(g, <<Ins("neg", Reg(instr.dividend), 0)>>),
                       config, "zero", instr, "kMinusZero"),
               config, "overflow", instr, "kOverflow")
  ELSE FlooringShiftNegated(
         GuardIf(CheckFlag(instr, "kBailoutOnMinusZero"),
                 Emits(g, <<Ins("neg", Reg(instr.dividend), 0)>>),
                 config, "zero", instr, "kMinusZero"),
         instr, shift)

\* LCodeGen::DoFlooringDivByPowerOf2I
DoFlooringDivByPowerOf2I(g, config, instr) ==
  IF instr.divisor = 1 THEN g
  ELSE IF instr.divisor > 1
  THEN Emits(g, <<Ins("sar", Reg(instr.dividend), Imm(WhichPowerOf2Abs(instr.divisor)))>>)
  ELSE FlooringDivByNegativePowerOf2(g, config, instr, WhichPowerOf2Abs(instr.divisor))

\* DoFlooringDivByConstI, the general case with the adjustment
FlooringDivAdjusted(g, instr) ==
  Emits(TruncatingDivBy(
          Emits(TruncatingDivBy(
                  Emits(g, <<Ins("cmp", Reg(instr.dividend), Imm(0)),
                             Ins("j", IF instr.divisor > 0 THEN "less" ELSE "greater",
                                 "needs_adjustment")>>),
                  Reg(instr.dividend), instr.divisor),
                <<Ins("jmp", "done", 0),
                  Ins("bind", "needs_adjustment", 0),
                  Ins("lea", Reg(instr.temp3),
                      [base |-> Reg(instr.dividend), scale |-> 0, index |-> Imm(0),
                       disp |-> IF instr.divisor > 0 THEN 1 ELSE -1])>>),
          Reg(instr.temp3), instr.divisor),
        <<Ins("dec", [reg |-> edx], 0), Ins("bind", "done", 0)>>)

\* LCodeGen::DoFlooringDivByConstI
DoFlooringDivByConstI(g, config, instr) ==
  IF instr.divisor = 0
  THEN DeoptimizeIfDefault(g, config, "no_condition", instr.env, "kDivisionByZero")
  ELSE IF \/ instr.divisor > 0 /\ ~CheckFlag(instr, "kLeftCanBeNegative")
          \/ instr.divisor < 0 /\ ~CheckFlag(instr, "kLeftCanBePositive")
  THEN TruncatingDivBy(DivMinusZeroByConstant(g, config, instr),
                       Reg(instr.dividend), instr.divisor)
  ELSE FlooringDivAdjusted(DivMinusZeroByConstant(g, config, instr), instr)

\* LCodeGen::DoFlooringDivI
DoFlooringDivI(g, config, instr) ==
  Emits(DivChecked(g, config, instr),
        <<Ins("test", Reg(instr.temp), Reg(instr.temp)),
          Ins("j", "zero", "done"),
          Ins("xor", Reg(instr.temp), Reg(instr.divisor)),
          Ins("sar", Reg(instr.temp), Imm(WordBits - 1)),
          Ins("add", Reg(instr.result), Reg(instr.temp)),
          Ins("bind", "done", 0)>>)

\* LCodeGen::ToInteger32
ToInteger32(op) == ToRepresentation(op, "Integer32")

\* DoMulI by a constant: the strength reductions and the multiplication
MulByConstant(g, instr, constant) ==
  IF constant = -1 THEN Emits(g, <<Ins("neg", Reg(instr.left), 0)>>)
  ELSE IF constant = 0 THEN Emits(g, <<Ins("xor", Reg(instr.left), Reg(instr.left))>>)
  ELSE IF constant = 2 THEN Emits(g, <<Ins("add", Reg(instr.left), Reg(instr.left))>>)
  ELSE IF ~CheckFlag(instr, "kCanOverflow")
  THEN (CASE constant = 1 -> g
          [] constant \in {3, 5, 9} ->
               Emits(g, <<Ins("lea", Reg(instr.left),
                              [base |-> Reg(instr.left), scale |-> constant - 1,
                               index |-> Reg(instr.left), disp |-> 0])>>)
          [] constant = 4 -> Emits(g, <<Ins("shl", Reg(instr.left), Imm(2))>>)
          [] constant = 8 -> Emits(g, <<Ins("shl", Reg(instr.left), Imm(3))>>)
          [] constant = 16 -> Emits(g, <<Ins("shl", Reg(instr.left), Imm(4))>>)
          [] OTHER -> Emits(g, <<Ins("imul", Reg(instr.left), Imm(constant))>>))
  ELSE Emits(g, <<Ins("imul", Reg(instr.left), Imm(constant))>>)

\* DoMulI, the multiplication
Multiply(g, instr) ==
  IF IsConstantOperand(instr.right) THEN MulByConstant(g, instr, ToInteger32(instr.right))
  ELSE Emits(g, (IF instr.representation = "Smi"
                 THEN <<Ins("sar", Reg(instr.left), Imm(1))>> ELSE <<>>)
                \o <<Ins("imul", Reg(instr.left), ToOperand(instr.right))>>)

\* the bailout of DoMulI testing the sign of the left operand alone
MulMinusZeroIgnoringRight(g, config, instr) ==
  Emits(IF IsConstantOperand(instr.right)
        THEN (IF ToInteger32(instr.right) < 0
              THEN DeoptimizeIfDefault(g, config, "no_condition", instr.env, "kMinusZero")
              ELSE IF ToInteger32(instr.right) = 0
              THEN DeoptimizeIfDefault(
                     Emits(g, <<Ins("cmp", Reg(instr.temp), Imm(0))>>),
                     config, "less", instr.env, "kMinusZero")
              ELSE g)
        ELSE DeoptimizeIfDefault(
               Emits(g, <<Ins("test", Reg(instr.temp), Reg(instr.temp))>>),
               config, "sign", instr.env, "kMinusZero"),
        <<Ins("bind", "done", 0)>>)

\* DoMulI, the bailout on a result that is supposed to be negative zero
MulMinusZero(g, config, instr) ==
  Emits(IF IsConstantOperand(instr.right)
        THEN (IF ToInteger32(instr.right) < 0
              THEN DeoptimizeIfDefault(g, config, "no_condition", instr.env, "kMinusZero")
              ELSE IF ToInteger32(instr.right) = 0
              THEN DeoptimizeIfDefault(
                     Emits(g, <<Ins("cmp", Reg(instr.temp), Imm(0))>>),
                     config, "less", instr.env, "kMinusZero")
              ELSE g)
        ELSE DeoptimizeIfDefault(
               Emits(g, <<Ins("or", Reg(instr.temp), ToOperand(instr.right))>>),
               config, "sign", instr.env, "kMinusZero"),
        <<Ins("bind", "done", 0)>>)

\* LCodeGen::DoMulI
DoMulI(g, config, instr) ==
  IF CheckFlag(instr, "kBailoutOnMinusZero")
  THEN MulMinusZero(
         Emits(GuardIf(CheckFlag(instr, "kCanOverflow"),
                       Multiply(Emits(g, <<Ins("mov", Reg(instr.temp), Reg(instr.left))>>),
                                instr),
                       config, "overflow", instr, "kOverflow"),
               <<Ins("test", Reg(instr.left), Reg(instr.left)),
                 Ins("j", "not_zero", "done")>>),
         config, instr)
  ELSE GuardIf(CheckFlag(instr, "kCanOverflow"), Multiply(g, instr),
               config, "overflow", instr, "kOverflow")

\* DoSubI with the guard taken on carry (below) instead of on overflow
DoSubIGuardOnCarry(g, config, instr) ==
  GuardIf(CheckFlag(instr, "kCanOverflow"),
          Emits(g, <<IF IsConstantOperand(instr.right)
                     THEN Ins("sub", ToOperand(instr.left),
                              ToImmediate(instr.right, instr.representation))
                     ELSE Ins("sub", Reg(instr.left), ToOperand(instr.right))>>),
          config, "below", instr, "kOverflow")

\* LCodeGen::DoSubI
DoSubI(g, config, instr) ==
  GuardIf(CheckFlag(instr, "kCanOverflow"),
          Emits(g, <<IF IsConstantOperand(instr.right)
                     THEN Ins("sub", ToOperand(instr.left),
                              ToImmediate(instr.right, instr.representation))
                     ELSE Ins("sub", Reg(instr.left), ToOperand(instr.right))>>),
          config, "overflow", instr, "kOverflow")

\* LCodeGen::DoAddI; UseLea is LAddI::UseLea(instr->hydrogen())
DoAddI(g, config, instr) ==
  IF instr.UseLea /\ instr.left # instr.result
  THEN Emits(g, <<Ins("lea", Reg(instr.result),
                      IF IsConstantOperand(instr.right)
                      THEN [base |-> Reg(instr.left), scale |-> 0, index |-> Imm(0),
                            disp |-> ToRepresentation(instr.right, instr.representation)]
                      ELSE [base |-> Reg(instr.left), scale |-> 1,
                            index |-> Reg(instr.right), disp |-> 0])>>)
  ELSE GuardIf(CheckFlag(instr, "kCanOverflow"),
               Emits(g, <<IF IsConstantOperand(instr.right)
                          THEN Ins("add", ToOperand(instr.left),
                                   ToImmediate(instr.right, instr.representation))
                          ELSE Ins("add", Reg(instr.left), ToOperand(instr.right))>>),
               config, "overflow", instr, "kOverflow")

\* the constant divisors LChunkBuilder hands to the power-of-two lowerings
\* (HBinaryOperation::RightIsPowerOf2) and to the general constant lowerings
PowerOf2Divisors == {d \in Words : \E k \in 0..(WordBits - 1) : 2^k = Abs(d)}
ConstDivisors == Words \ PowerOf2Divisors

R(index) == LOperand("REGISTER", index)

ModByPowerOf2Instructions ==
  [op : {"ModByPowerOf2I"}, dividend : {R(1)}, result : {R(1)}, divisor : PowerOf2Divisors,
   flags : SUBSET {"kLeftCanBeNegative", "kBailoutOnMinusZero"}, env : {1}]

ModByConstInstructions ==
  [op : {"ModByConstI"}, dividend : {R(1)}, result : {R(0)}, divisor : ConstDivisors,
   flags : SUBSET {"kBailoutOnMinusZero"}, env : {1}]

ModInstructions ==
  [op : {"ModI"}, left : {R(0)}, right : {R(1)}, result : {R(2)},
   flags : SUBSET {"kCanBeDivByZero", "kCanOverflow", "kBailoutOnMinusZero"}, env : {1}]

DivByPowerOf2Instructions ==
  [op : {"DivByPowerOf2I"}, dividend : {R(1)}, result : {R(0)}, divisor : PowerOf2Divisors,
   flags : SUBSET {"kBailoutOnMinusZero", "kCanOverflow", "kAllUsesTruncatingToInt32"},
   env : {1}]

DivByConstInstructions ==
  [op : {"DivByConstI"}, dividend : {R(1)}, result : {R(2)}, divisor : ConstDivisors,
   flags : SUBSET {"kBailoutOnMinusZero", "kAllUsesTruncatingToInt32"}, env : {1}]

DivInstructions ==
  [op : {"DivI", "FlooringDivI"}, dividend : {R(0)}, divisor : {R(1)}, temp : {R(2)},
   result : {R(0)},
   flags : SUBSET {"kCanBeDivByZero", "kBailoutOnMinusZero", "kCanOverflow",
                   "kAllUsesTruncatingToInt32"},
   env : {1}]

FlooringDivByPowerOf2Instructions ==
  [op : {"FlooringDivByPowerOf2I"}, dividend : {R(1)}, result : {R(1)},
   divisor : PowerOf2Divisors,
   flags : SUBSET {"kBailoutOnMinusZero", "kLeftCanBeMinInt"}, env : {1}]

FlooringDivByConstInstructions ==
  [op : {"FlooringDivByConstI"}, dividend : {R(1)}, temp3 : {R(3)}, result : {R(2)},
   divisor : ConstDivisors,
   flags : SUBSET {"kBailoutOnMinusZero", "kLeftCanBeNegative", "kLeftCanBePositive"},
   env : {1}]

\* a constant of Smi representation fits a Smi
FitsSmi(op, r) ==
  (r = "Smi" /\ IsConstantOperand(op)) => SmiFromInt(LookupConstant(op).v) \in Words

ArithmeticConstants == {LOperand("CONSTANT_OPERAND", i) : i \in 1..8}

MulInstructions ==
  { i \in [op : {"MulI"}, left : {R(0)}, result : {R(0)}, temp : {R(2)},
           right : {R(1), LOperand("STACK_SLOT", 0)} \cup ArithmeticConstants,
           representation : {"Integer32", "Smi"},
           flags : SUBSET {"kCanOverflow", "kBailoutOnMinusZero"}, env : {1}] :
      FitsSmi(i.right, i.representation) }

SubInstructions ==
  { i \in [op : {"SubI"}, left : {R(0)}, result : {R(0)},
           right : {R(1), LOperand("STACK_SLOT", 0)} \cup ArithmeticConstants,
           representation : {"Integer32", "Smi"},
           flags : SUBSET {"kCanOverflow"}, env : {1}] :
      FitsSmi(i.right, i.representation) }

\* LAddI::UseLea holds only without kCanOverflow; the result is the left operand
\* unless lea is used, and lea adds a register or a constant
AddInstructions ==
  { i \in [op : {"AddI"}, left : {R(0)}, result : {R(0), R(2)},
           right : {R(1), LOperand("STACK_SLOT", 0)} \cup ArithmeticConstants,
           representation : {"Integer32", "Smi"}, UseLea : BOOLEAN,
           flags : SUBSET {"kCanOverflow"}, env : {1}] :
      /\ FitsSmi(i.right, i.representation)
      /\ (i.UseLea => ~CheckFlag(i, "kCanOverflow") /\ i.right.kind # "STACK_SLOT")
      /\ (~i.UseLea => i.result = i.left) }

InitAr == InBody(UnitConfiguration, <<ExtraEnvironment>>)

ModByPowerOf2I(instr) == Lower("DoModByPowerOf2I", instr, DoModByPowerOf2I(G, cfg, instr))
ModByConstI(instr) == Lower("DoModByConstI", instr, DoModByConstI(G, cfg, instr))
ModI(instr) == Lower("DoModI", instr, DoModI(G, cfg, instr))
DivByPowerOf2I(instr) == Lower("DoDivByPowerOf2I", instr, DoDivByPowerOf2I(G, cfg, instr))
DivByConstI(instr) == Lower("DoDivByConstI", instr, DoDivByConstI(G, cfg, instr))
DivI(instr) == Lower("DoDivI", instr, DoDivI(G, cfg, instr))
FlooringDivByPowerOf2I(instr) ==
  Lower("DoFlooringDivByPowerOf2I", instr, DoFlooringDivByPowerOf2I(G, cfg, instr))
FlooringDivByConstI(instr) ==
  Lower("DoFlooringDivByConstI", instr, DoFlooringDivByConstI(G, cfg, instr))
FlooringDivI(instr) == Lower("DoFlooringDivI", instr, DoFlooringDivI(G, cfg, instr))
MulI(instr) == Lower("DoMulI", instr, DoMulI(G, cfg, instr))
SubI(instr) == Lower("DoSubI", instr, DoSubI(G, cfg, instr))
AddI(instr) == Lower("DoAddI", instr, DoAddI(G, cfg, instr))

NextAr ==
  \/ \E instr \in ModByPowerOf2Instructions : ModByPowerOf2I(instr)
  \/ \E instr \in ModByConstInstructions : ModByConstI(instr)
  \/ \E instr \in ModInstructions : ModI(instr)
  \/ \E instr \in DivByPowerOf2Instructions : DivByPowerOf2I(instr)
  \/ \E instr \in DivByConstInstructions : DivByConstI(instr)
  \/ \E instr \in {i \in DivInstructions : i.op = "DivI"} : DivI(instr)
  \/ \E instr \in FlooringDivByPowerOf2Instructions : FlooringDivByPowerOf2I(instr)
  \/ \E instr \in FlooringDivByConstInstructions : FlooringDivByConstI(instr)
  \/ \E instr \in {i \in DivInstructions : i.op = "FlooringDivI"} : FlooringDivI(instr)
  \/ \E instr \in MulInstructions : MulI(instr)
  \/ \E instr \in SubInstructions : SubI(instr)
  \/ \E instr \in AddInstructions : AddI(instr)

SpecAr == InitAr /\ [][NextAr]_vars

\* the lowerings of a division or modulus by plus or minus a power of two
NextP2 ==
  \/ \E instr \in ModByPowerOf2Instructions : ModByPowerOf2I(instr)
  \/ \E instr \in DivByPowerOf2Instructions : DivByPowerOf2I(instr)
  \/ \E instr \in FlooringDivByPowerOf2Instructions : FlooringDivByPowerOf2I(instr)

SpecP2 == InitAr /\ [][NextP2]_vars

\* ------------------------------------------------- element access (SpecEl)
\* the compilation of a unit with --debug-code on or off, as a stub or not
ElementConfiguration(debug_code, stub) ==
  [IsStub |-> stub, NeedsEagerFrame |-> TRUE, NeedsDeferredFrame |-> FALSE,
   FLAG_trace_deopt |-> FALSE, is_profiling |-> FALSE,
   DeoptEveryNTimes |-> FALSE, ShouldTrapOnDeopt |-> FALSE,
   FLAG_debug_code |-> debug_code]

IsSIMD128LoadStoreOp(op) == op.simd128
GetSIMD128LoadStoreBytes(op) == op.bytes

kSmiTagSize == 1

\* "if (shift_size > 0) __ shl(reg, shift_size)"
ShiftIfPositive(reg, shift_size) ==
  IF shift_size > 0 THEN <<Ins("shl", Reg(reg), Imm(shift_size))>> ELSE <<>>

\* the operand of DoBoundsCheck brought to bytes in a temp register
InBytes(temp, operand, r, elements_kind) ==
  <<Ins("mov", Reg(temp),
        IF IsConstantOperand(operand) THEN ToImmediate(operand, r) ELSE ToOperand(operand))>>
  \o ShiftIfPositive(temp, ElementsKindToShiftSize(elements_kind)
                             - (IF r = "Smi" THEN kSmiTagSize ELSE 0))

\* DoBoundsCheck, the comparison for a SIMD128 load or store
BoundsCheckCompareSIMD128(g, instr) ==
  Emits(g, InBytes(instr.temp0, instr.index, instr.index_representation,
                   instr.element_kind)
           \o <<Ins("add", Reg(instr.temp0),
                    Imm(GetSIMD128LoadStoreBytes(instr.builtin)))>>
           \o InBytes(instr.temp1, instr.length, instr.length_representation,
                      instr.element_kind)
           \o <<Ins("cmp", Reg(instr.temp0), Reg(instr.temp1))>>)

\* DoBoundsCheck, the comparison of the index with the length
BoundsCheckCompare(g, instr) ==
  Emits(g, <<IF IsConstantOperand(instr.index)
             THEN Ins("cmp", ToOperand(instr.length),
                      ToImmediate(instr.index, instr.length_representation))
             ELSE IF IsConstantOperand(instr.length)
             THEN Ins("cmp", ToOperand(instr.index),
                      ToImmediate(instr.length, instr.index_representation))
             ELSE Ins("cmp", Reg(instr.index), ToOperand(instr.length))>>)

\* DoBoundsCheck, the condition on which the check fails
BoundsCheckCondition(instr) ==
  IF IsSIMD128LoadStoreOp(instr.builtin) THEN "above"
  ELSE IF IsConstantOperand(instr.index)
  THEN CommuteCondition(IF instr.allow_equality THEN "above" ELSE "above_equal")
  ELSE IF instr.allow_equality THEN "above" ELSE "above_equal"

\* DoBoundsCheck failing on "above" whether or not equality is allowed
BoundsCheckFailAlwaysAbove(g, config, instr, cc) ==
  IF config.FLAG_debug_code /\ instr.skip_check
  THEN Emits(g, <<Ins("j", NegateCondition(cc), "done"), Ins("int3", 0, 0),
                  Ins("bind", "done", 0)>>)
  ELSE DeoptimizeIfDefault(g, config,
                           IF IsConstantOperand(instr.index) THEN "below" ELSE "above",
                           instr.env, "kOutOfBounds")

\* DoBoundsCheck, what the code does when the check fails
BoundsCheckFail(g, config, instr, cc) ==
  IF config.FLAG_debug_code /\ instr.skip_check
  THEN Emits(g, <<Ins("j", NegateCondition(cc), "done"), Ins("int3", 0, 0),
                  Ins("bind", "done", 0)>>)
  ELSE DeoptimizeIfDefault(g, config, cc, instr.env, "kOutOfBounds")

\* LCodeGen::DoBoundsCheck
DoBoundsCheck(g, config, instr) ==
  BoundsCheckFail(IF IsSIMD128LoadStoreOp(instr.builtin)
                  THEN BoundsCheckCompareSIMD128(g, instr)
                  ELSE BoundsCheckCompare(g, instr),
                  config, instr, BoundsCheckCondition(instr))

\* the builtin a bounds check guards: an ordinary access, or a SIMD128 load or
\* store of 16 or 8 bytes
Builtins == {[simd128 |-> FALSE, bytes |-> 0], [simd128 |-> TRUE, bytes |-> 16],
             [simd128 |-> TRUE, bytes |-> 8]}

\* LChunkBuilder::DoBoundsCheck: the index is a register or a constant, the
\* length a register, a stack slot or, if the index is no constant, a constant;
\* HBoundsCheck gives index and length one representation; a SIMD128 access has
\* its temps and an element kind its shift allows
BoundsCheckInstructions ==
  { i \in [op : {"BoundsCheck"},
           index : {R(0)} \cup ArithmeticConstants,
           length : {R(1), LOperand("STACK_SLOT", 0)} \cup ArithmeticConstants,
           temp0 : {R(2)}, temp1 : {R(3)},
           index_representation : {"Integer32", "Smi"},
           length_representation : {"Integer32", "Smi"},
           allow_equality : BOOLEAN, skip_check : BOOLEAN,
           builtin : Builtins, element_kind : {"INT8_ELEMENTS", "INT32_ELEMENTS"},
           env : {1}] :
      /\ i.index_representation = i.length_representation
      /\ ~(IsConstantOperand(i.index) /\ IsConstantOperand(i.length))
      /\ FitsSmi(i.index, i.index_representation)
      /\ FitsSmi(i.length, i.length_representation)
      /\ IsSIMD128LoadStoreOp(i.builtin)
           => /\ ~i.allow_equality /\ ~i.skip_check
              /\ i.index_representation = "Smi" => i.element_kind # "INT8_ELEMENTS"
      /\ ~IsSIMD128LoadStoreOp(i.builtin) => i.element_kind = "INT32_ELEMENTS" }

\* tagged words: a Smi has its low bit clear, a heap object has it set
kSmiTagMask == 1
kHeapObjectTag == 1
the_hole_value == 1
undefined_value == 3
array_protector == 7
kArrayProtectorValid == 1

\* the upper word of the NaN that stands for the hole in a double array
kHoleNanUpper32 == kMaxInt

\* Operand(base, disp) and Operand(base, index, scale, disp)
Operand(base, index, scale, disp) ==
  [base |-> [reg |-> base], scale |-> scale, index |-> index, disp |-> Wrap(disp)]

FieldOperand(object, offset) == Operand(object, Imm(0), 0, offset - kHeapObjectTag)

maximal_scale_factor == 3

\* PropertyCell::kValueOffset: the value follows the map word
kValueOffset == kPointerSize

ExternalArrayOpRequiresPreScale(key_representation, elements_kind) ==
  ElementsKindToShiftSize(elements_kind)
    > maximal_scale_factor + (IF key_representation = "Smi" THEN kSmiTagSize ELSE 0)

\* BuildFastArrayOperand, "constant_value & 0xF0000000": the key has one of the
\* top bits set
ConstantValueTooBig(constant_value) ==
  constant_value < 0 \/ constant_value >= 2^(WordBits - 1)

\* LCodeGen::BuildFastArrayOperand: the abort it may raise
FastArrayAbort(g, key) ==
  IF IsConstantOperand(key) /\ ConstantValueTooBig(ToInteger32(key))
  THEN Abort(g, "kArrayIndexConstantValueTooBig") ELSE g

\* LCodeGen::BuildFastArrayOperand: the operand it returns
BuildFastArrayOperand(elements_pointer, key, key_representation, elements_kind, base_offset) ==
  IF IsConstantOperand(key)
  THEN Operand(ToRegister(elements_pointer), Imm(0), 0,
               ToInteger32(key) * 2^ElementsKindToShiftSize(elements_kind) + base_offset)
  ELSE Operand(ToRegister(elements_pointer), Reg(key),
               2^(IF ExternalArrayOpRequiresPreScale(key_representation, elements_kind)
                  THEN maximal_scale_factor
                  ELSE IF key_representation = "Smi"
                          /\ ElementsKindToShiftSize(elements_kind) >= 1
                  THEN ElementsKindToShiftSize(elements_kind) - kSmiTagSize
                  ELSE ElementsKindToShiftSize(elements_kind)),
               base_offset)

IsFastPackedElementsKind(elements_kind) ==
  elements_kind \in {"FAST_SMI_ELEMENTS", "FAST_ELEMENTS", "FAST_DOUBLE_ELEMENTS"}

IsFastSmiElementsKind(elements_kind) ==
  elements_kind \in {"FAST_SMI_ELEMENTS", "FAST_HOLEY_SMI_ELEMENTS"}

\* HLoadKeyed::RequiresHoleCheck
RequiresHoleCheck(hydrogen) ==
  /\ ~IsFastPackedElementsKind(hydrogen.elements_kind)
  /\ hydrogen.hole_mode # "CONVERT_HOLE_TO_UNDEFINED"
  /\ ~hydrogen.UsesMustHandleHole

\* DoLoadKeyedFixedDoubleArray, the check of the upper word of the element
DoubleHoleCheck(g, config, instr) ==
  IF RequiresHoleCheck(instr.hydrogen)
  THEN DeoptimizeIfDefault(
         Emits(FastArrayAbort(g, instr.key),
               <<Ins("cmp",
                     BuildFastArrayOperand(instr.elements, instr.key,
                                           instr.key_representation, "FAST_DOUBLE_ELEMENTS",
                                           instr.base_offset + kPointerSize),
                     Imm(kHoleNanUpper32))>>),
         config, "equal", instr.env, "kHole")
  ELSE g

\* LCodeGen::DoLoadKeyedFixedDoubleArray
DoLoadKeyedFixedDoubleArray(g, config, instr) ==
  Emits(FastArrayAbort(DoubleHoleCheck(g, config, instr), instr.key),
        <<Ins("movsd", ToDoubleRegister(instr.result),
              BuildFastArrayOperand(instr.elements, instr.key, instr.key_representation,
                                    "FAST_DOUBLE_ELEMENTS", instr.base_offset))>>)

\* DoLoadKeyedFixedArray, the conversion of the hole: a stub bails out unless
\* the array protector is valid
ConvertHoleToUndefined(g, config, instr) ==
  Emits((IF config.IsStub
         THEN DeoptimizeIfDefault(
                Emits(g, <<Ins("cmp", Reg(instr.result), Imm(the_hole_value)),
                           Ins("j", "not_equal", "done"),
                           Ins("mov", Reg(instr.result), Imm(array_protector)),
                           Ins("cmp", FieldOperand(ToRegister(instr.result), kValueOffset),
                               Imm(SmiFromInt(kArrayProtectorValid)))>>),
                config, "not_equal", instr.env, "kHole")
         ELSE Emits(g, <<Ins("cmp", Reg(instr.result), Imm(the_hole_value)),
                         Ins("j", "not_equal", "done")>>)),
        <<Ins("mov", Reg(instr.result), Imm(undefined_value)),
          Ins("bind", "done", 0)>>)

\* DoLoadKeyedFixedArray converting the hole in a stub without a look at the
\* array protector
HoleCheckIgnoringProtector(g, config, instr) ==
  IF RequiresHoleCheck(instr.hydrogen)
  THEN (IF IsFastSmiElementsKind(instr.hydrogen.elements_kind)
        THEN DeoptimizeIfDefault(
               Emits(g, <<Ins("test", Reg(instr.result), Imm(kSmiTagMask))>>),
               config, "not_equal", instr.env, "kNotASmi")
        ELSE DeoptimizeIfDefault(
               Emits(g, <<Ins("cmp", Reg(instr.result), Imm(the_hole_value))>>),
               config, "equal", instr.env, "kHole"))
  ELSE IF instr.hydrogen.hole_mode = "CONVERT_HOLE_TO_UNDEFINED"
  THEN ConvertHoleToUndefined(g, [config EXCEPT !.IsStub = FALSE], instr)
  ELSE g

\* DoLoadKeyedFixedArray, the check for the hole value
HoleCheck(g, config, instr) ==
  IF RequiresHoleCheck(instr.hydrogen)
  THEN (IF IsFastSmiElementsKind(instr.hydrogen.elements_kind)
        THEN DeoptimizeIfDefault(
               Emits(g, <<Ins("test", Reg(instr.result), Imm(kSmiTagMask))>>),
               config, "not_equal", instr.env, "kNotASmi")
        ELSE DeoptimizeIfDefault(
               Emits(g, <<Ins("cmp", Reg(instr.result), Imm(the_hole_value))>>),
               config, "equal", instr.env, "kHole"))
  ELSE IF instr.hydrogen.hole_mode = "CONVERT_HOLE_TO_UNDEFINED"
  THEN ConvertHoleToUndefined(g, config, instr)
  ELSE g

\* LCodeGen::DoLoadKeyedFixedArray
DoLoadKeyedFixedArray(g, config, instr) ==
  HoleCheck(Emits(FastArrayAbort(g, instr.key),
                  <<Ins("mov", Reg(instr.result),
                        BuildFastArrayOperand(instr.elements, instr.key,
                                              instr.key_representation, "FAST_ELEMENTS",
                                              instr.base_offset))>>),
            config, instr)

\* the keys of a keyed load: a register or a constant
LoadKeys == {R(1)} \cup {LOperand("CONSTANT_OPERAND", i) : i \in {1, 2, 3}}

HoleModes == {"NEVER_RETURN_HOLE", "ALLOW_RETURN_HOLE", "CONVERT_HOLE_TO_UNDEFINED"}

\* HLoadKeyed: the hole is converted only in a FAST_HOLEY_ELEMENTS or
\* FAST_HOLEY_DOUBLE_ELEMENTS array
LoadKeyedHydrogens(kinds) ==
  { h \in [elements_kind : kinds, hole_mode : HoleModes, UsesMustHandleHole : BOOLEAN] :
      /\ h.hole_mode = "CONVERT_HOLE_TO_UNDEFINED"
           => h.elements_kind \in {"FAST_HOLEY_ELEMENTS", "FAST_HOLEY_DOUBLE_ELEMENTS"}
      /\ IsFastPackedElementsKind(h.elements_kind) => ~h.UsesMustHandleHole }

\* FixedArray::kHeaderSize - kHeapObjectTag
FixedArrayBaseOffset == 2 * kPointerSize - kHeapObjectTag

LoadKeyedFixedArrayInstructions ==
  { i \in [op : {"LoadKeyedFixedArray"}, elements : {R(0)}, key : LoadKeys,
           result : {R(2)}, key_representation : {"Integer32", "Smi"},
           base_offset : {FixedArrayBaseOffset},
           hydrogen : LoadKeyedHydrogens({"FAST_SMI_ELEMENTS", "FAST_ELEMENTS",
                                          "FAST_HOLEY_SMI_ELEMENTS", "FAST_HOLEY_ELEMENTS"}),
           env : {1}] :
      IsConstantOperand(i.key) => i.key_representation = "Integer32" }

LoadKeyedFixedDoubleArrayInstructions ==
  { i \in [op : {"LoadKeyedFixedDoubleArray"}, elements : {R(0)}, key : LoadKeys,
           result : {LOperand("DOUBLE_REGISTER", 0)},
           key_representation : {"Integer32", "Smi"},
           base_offset : {FixedArrayBaseOffset},
           hydrogen : LoadKeyedHydrogens({"FAST_DOUBLE_ELEMENTS",
                                          "FAST_HOLEY_DOUBLE_ELEMENTS"}),
           env : {1}] :
      IsConstantOperand(i.key) => i.key_representation = "Integer32" }

InitEl ==
  \E debug_code \in BOOLEAN, stub \in BOOLEAN :
    InBody(ElementConfiguration(debug_code, stub), <<ExtraEnvironment>>)

BoundsCheck(instr) == Lower("DoBoundsCheck", instr, DoBoundsCheck(G, cfg, instr))
LoadKeyedFixedArray(instr) ==
  Lower("DoLoadKeyedFixedArray", instr, DoLoadKeyedFixedArray(G, cfg, instr))
LoadKeyedFixedDoubleArray(instr) ==
  Lower("DoLoadKeyedFixedDoubleArray", instr, DoLoadKeyedFixedDoubleArray(G, cfg, instr))

NextEl ==
  \/ \E instr \in BoundsCheckInstructions : BoundsCheck(instr)
  \/ \E instr \in LoadKeyedFixedArrayInstructions : LoadKeyedFixedArray(instr)
  \/ \E instr \in LoadKeyedFixedDoubleArrayInstructions : LoadKeyedFixedDoubleArray(instr)

SpecEl == InitEl /\ [][NextEl]_vars

\* ------------------------------------------------- SIMD shuffles (SpecSh)
xmm0 == 0

ComputeShuffleSelect(x, y, z, w) == ((w * 64) + (z * 16) + (y * 4) + x) % 256

\* the macro COMPUTE_SELECT applied to the lanes from the n-th on
RECURSIVE ComputeSelect(_, _, _)
ComputeSelect(lanes, n, st) ==
  IF n > Len(lanes) THEN st
  ELSE ComputeSelect(lanes, n + 1,
         IF lanes[n] >= 4
         THEN [st EXCEPT !.first_select[st.j + 1] = lanes[n] % 4,
                         !.second_select[st.k + 1] = st.j,
                         !.j = @ + 1, !.k = @ + 1]
         ELSE [st EXCEPT !.first_select[st.i + 1] = lanes[n],
                         !.second_select[st.k + 1] = st.i,
                         !.i = @ + 1, !.k = @ + 1])

Shufps(g, dst, src, select) == Asm(g, Ins("shufps", dst, [src |-> src, imm |-> select]))
Movaps(g, dst, src) == Asm(g, Ins("movaps", dst, src))

Below4(v) == IF v < 4 THEN 1 ELSE 0

\* three lanes of lhs with x and y among them: the lane of rhs is w or z
ShuffleThreeLow(g, lhs, rhs, x, y, z, w) ==
  LET first_select == IF w >= 4 THEN ComputeShuffleSelect(w - 4, w - 4, z, z)
                      ELSE ComputeShuffleSelect(z - 4, z - 4, w, w)
      second_select == IF w >= 4 THEN ComputeShuffleSelect(x, y, 2, 0)
                       ELSE ComputeShuffleSelect(x, y, 0, 2)
  IN Shufps(Shufps(Movaps(g, xmm0, rhs), xmm0, lhs, first_select),
            lhs, xmm0, second_select)

\* three lanes of lhs with z and w among them: the lane of rhs is y or x
ShuffleThreeHigh(g, lhs, rhs, x, y, z, w) ==
  LET first_select == IF y >= 4 THEN ComputeShuffleSelect(y - 4, y - 4, x, x)
                      ELSE ComputeShuffleSelect(x - 4, x - 4, y, y)
      second_select == IF y >= 4 THEN ComputeShuffleSelect(2, 0, z, w)
                       ELSE ComputeShuffleSelect(0, 2, z, w)
  IN Movaps(Shufps(Shufps(Movaps(g, xmm0, rhs), xmm0, lhs, first_select),
                   xmm0, lhs, second_select),
            lhs, xmm0)

\* two lanes of each operand
ShuffleTwo(g, lhs, rhs, x, y, z, w) ==
  IF x < 4 /\ y < 4
  THEN Shufps(g, lhs, rhs, ComputeShuffleSelect(x, y, z % 4, w % 4))
  ELSE IF z < 4 /\ w < 4
  THEN Movaps(Shufps(Movaps(g, xmm0, rhs), xmm0, lhs,
                     ComputeShuffleSelect(x % 4, y % 4, z, w)),
              lhs, xmm0)
  ELSE LET st == ComputeSelect(<<x, y, z, w>>, 1,
                   [first_select |-> <<0, 0, 0, 0>>, second_select |-> <<0, 0, 0, 0>>,
                    i |-> 0, j |-> 2, k |-> 0])
           f == st.first_select
           t == st.second_select
       IN Shufps(Shufps(g, lhs, rhs, ComputeShuffleSelect(f[1], f[2], f[3], f[4])),
                 lhs, lhs, ComputeShuffleSelect(t[1], t[2], t[3], t[4]))

\* LCodeGen::DoSenarySIMDOperation for kFloat32x4Shuffle and kInt32x4Shuffle
DoSenarySIMDOperation(g, config, instr) ==
  LET lhs == instr.a0
      rhs == instr.a1
      x == instr.x
      y == instr.y
      z == instr.z
      w == instr.w
      num_lanes_from_lhs == Below4(x) + Below4(y) + Below4(z) + Below4(w)
  IN IF ~instr.constant_selectors
     THEN DeoptimizeIfDefault(g, config, "no_condition", instr.env, "kForcedDeoptToRuntime")
     ELSE CASE num_lanes_from_lhs = 4 ->
                 Shufps(g, lhs, lhs, ComputeShuffleSelect(x, y, z, w))
            [] num_lanes_from_lhs = 0 ->
                 Shufps(Movaps(g, lhs, rhs), lhs, lhs,
                        ComputeShuffleSelect(x - 4, y - 4, z - 4, w - 4))
            [] num_lanes_from_lhs = 3 ->
                 IF x < 4 /\ y < 4 THEN ShuffleThreeLow(g, lhs, rhs, x, y, z, w)
                 ELSE ShuffleThreeHigh(g, lhs, rhs, x, y, z, w)
            [] num_lanes_from_lhs = 2 -> ShuffleTwo(g, lhs, rhs, x, y, z, w)
            [] OTHER -> g

\* the SIMD registers after the emitted movaps and shufps from the i-th on
RECURSIVE RunSIMD(_, _, _)
RunSIMD(code, i, xmm) ==
  IF i > Len(code) THEN xmm
  ELSE LET c == code[i]
       IN CASE c.op = "movaps" -> RunSIMD(code, i + 1, [xmm EXCEPT ![c.a] = xmm[c.b]])
            [] c.op = "shufps" ->
                 RunSIMD(code, i + 1,
                   [xmm EXCEPT ![c.a] =
                      << xmm[c.a][(c.b.imm % 4) + 1],
                         xmm[c.a][((c.b.imm \div 4) % 4) + 1],
                         xmm[c.b.src][((c.b.imm \div 16) % 4) + 1],
                         xmm[c.b.src][((c.b.imm \div 64) % 4) + 1] >>])
            [] OTHER -> xmm

\* the shuffles of two distinct registers, neither of them the scratch register
ShuffleInstructions ==
  { i \in [op : {"kFloat32x4Shuffle", "kInt32x4Shuffle"}, a0 : {1, 2}, a1 : {1, 2},
           constant_selectors : BOOLEAN, x : 0..7, y : 0..7, z : 0..7, w : 0..7,
           env : {1}] :
      /\ i.a0 # i.a1
      /\ (~i.constant_selectors => i.x = 0 /\ i.y = 0 /\ i.z = 0 /\ i.w = 0) }

InitSh == InBody(UnitConfiguration, <<ExtraEnvironment>>)

SenarySIMDOperation(instr) ==
  Lower("DoSenarySIMDOperation", instr, DoSenarySIMDOperation(G, cfg, instr))

NextSh == \E instr \in ShuffleInstructions : SenarySIMDOperation(instr)

SpecSh == InitSh /\ [][NextSh]_vars

\* ------------------------------------------------------ snapshots (SpecSn)
MaxContexts == 2
MaxDeserializers == 2

kInt32Size == 4

\* memcpy of a 32-bit value: its four bytes, the least significant first
Int32Bytes(value) ==
  <<value % 256, (value \div 256) % 256, (value \div 65536) % 256,
    (value \div 16777216) % 256>>

\* "memcpy(&value, data + offset, kInt32Size)"
Int32At(data, offset) ==
  data[offset + 1] + 256 * data[offset + 2] + 65536 * data[offset + 3]
    + 16777216 * data[offset + 4]

\* CopyBytes(data + offset, bytes, length) and memcpy(data + offset, bytes, length)
CopyBytes(data, offset, bytes) ==
  [i \in 1..Len(data) |->
     IF i > offset /\ i <= offset + Len(bytes) THEN bytes[i - offset] ELSE data[i]]

\* Vector<const byte>(data + offset, length)
Vector(data, offset, length) == SubSeq(data, offset + 1, offset + length)

\* the header of SerializedData
kMagicNumberOffset == 0
kCheckSumOffset == kMagicNumberOffset + kInt32Size
kNumReservationsOffset == kCheckSumOffset + kInt32Size
kPayloadLengthOffset == kNumReservationsOffset + kInt32Size
kHeaderSize == kPayloadLengthOffset + kInt32Size

\* SerializedData::AllocateData
AllocateData(size) == [i \in 1..size |-> 0]

SetHeaderValue(data, offset, value) == CopyBytes(data, offset, Int32Bytes(value))
GetHeaderValue(data, offset) == Int32At(data, offset)

\* SerializedData::SetMagicNumber: a number that depends on the build
kMagicNumber == 49374
SetMagicNumber(data, build) ==
  SetHeaderValue(data, kMagicNumberOffset, kMagicNumber + build.external_references)

\* Version::Hash() of a build
VersionHash(build) == build.hash

\* SerializedData::Reservation: the chunk size in bits 0..30, is_last in bit 31
ReservationBytes(reservation) ==
  <<reservation.chunk_size % 256, (reservation.chunk_size \div 256) % 256,
    (reservation.chunk_size \div 65536) % 256,
    ((reservation.chunk_size \div 16777216) % 128)
      + (IF reservation.is_last THEN 128 ELSE 0)>>

ReservationAt(data, offset) ==
  [chunk_size |-> data[offset + 1] + 256 * data[offset + 2] + 65536 * data[offset + 3]
                    + 16777216 * (data[offset + 4] % 128),
   is_last |-> data[offset + 4] >= 128]

RECURSIVE BytesOfReservations(_)
BytesOfReservations(reservations) ==
  IF reservations = <<>> THEN <<>>
  ELSE ReservationBytes(Head(reservations)) \o BytesOfReservations(Tail(reservations))

\* Serializer::EncodeReservations
EncodeReservations(serializer) == serializer.reservations

\* SnapshotData::SnapshotData(const Serializer*) writing the checksum into the
\* slot of the magic number
SnapshotDataChecksumMisplaced(serializer, build) ==
  CopyBytes(
    CopyBytes(
      SetHeaderValue(
        SetHeaderValue(
          SetHeaderValue(
            SetMagicNumber(
              AllocateData(kHeaderSize + Len(EncodeReservations(serializer)) * kInt32Size
                           + Len(serializer.payload)),
              build),
            kMagicNumberOffset, VersionHash(build)),
          kNumReservationsOffset, Len(EncodeReservations(serializer))),
        kPayloadLengthOffset, Len(serializer.payload)),
      kHeaderSize, BytesOfReservations(EncodeReservations(serializer))),
    kHeaderSize + Len(EncodeReservations(serializer)) * kInt32Size, serializer.payload)

\* SnapshotData::SnapshotData(const Serializer*), run in the given build
SnapshotData(serializer, build) ==
  CopyBytes(
    CopyBytes(
      SetHeaderValue(
        SetHeaderValue(
          SetHeaderValue(
            SetMagicNumber(
              AllocateData(kHeaderSize + Len(EncodeReservations(serializer)) * kInt32Size
                           + Len(serializer.payload)),
              build),
            kCheckSumOffset, VersionHash(build)),
          kNumReservationsOffset, Len(EncodeReservations(serializer))),
        kPayloadLengthOffset, Len(serializer.payload)),
      kHeaderSize, BytesOfReservations(EncodeReservations(serializer))),
    kHeaderSize + Len(EncodeReservations(serializer)) * kInt32Size, serializer.payload)

\* SnapshotData::IsSane comparing the magic number in place of the checksum
IsSaneByMagicNumber(data, build) ==
  GetHeaderValue(data, kMagicNumberOffset) = kMagicNumber + build.external_references

\* SnapshotData::IsSane, run in the given build
IsSane(data, build) == GetHeaderValue(data, kCheckSumOffset) = VersionHash(build)

\* SnapshotData::Reservations
Reservations(data) ==
  [i \in 1..GetHeaderValue(data, kNumReservationsOffset) |->
     ReservationAt(data, kHeaderSize + (i - 1) * kInt32Size)]

\* SnapshotData::Payload
Payload(data) ==
  Vector(data, kHeaderSize + GetHeaderValue(data, kNumReservationsOffset) * kInt32Size,
         GetHeaderValue(data, kPayloadLengthOffset))

\* SerializedData::RawData
RawData(data) == data

\* the allocation spaces and the layout of pages
kNumberOfSpaces == 5
FIRST_PAGED_SPACE == 1
LAST_PAGED_SPACE == 3
CODE_SPACE == 2
kNumPagedSpaces == LAST_PAGED_SPACE - FIRST_PAGED_SPACE + 1
KB == 1024
kObjectStartOffset == 32
PageAreaSize(space) == IF space = CODE_SPACE THEN 512 * KB ELSE 1024 * KB - kObjectStartOffset

\* the layout of the snapshot blob
kFirstPageSizesOffset == 0
kNumberOfContextsOffset == kFirstPageSizesOffset + kNumPagedSpaces * kInt32Size
kFirstContextOffsetOffset == kNumberOfContextsOffset + kInt32Size
StartupSnapshotOffset(num_contexts) == kFirstContextOffsetOffset + num_contexts * kInt32Size
ContextSnapshotOffsetOffset(index) == kFirstContextOffsetOffset + index * kInt32Size

Max(a, b) == IF a > b THEN a ELSE b
Min(a, b) == IF a < b THEN a ELSE b

RECURSIVE UpdateMaxRequirementPerPage(_, _, _, _)
\* UpdateMaxRequirementPerPage: requirements maps a space to its requirement
UpdateMaxRequirementPerPage(requirements, reservations, space, current_requirement) ==
  IF reservations = <<>> THEN requirements
  ELSE IF Head(reservations).is_last
  THEN UpdateMaxRequirementPerPage(
         [requirements EXCEPT ![space] = Max(@, current_requirement
                                                 + Head(reservations).chunk_size)],
         Tail(reservations), space + 1, 0)
  ELSE UpdateMaxRequirementPerPage(requirements, Tail(reservations), space,
                                   current_requirement + Head(reservations).chunk_size)

RECURSIVE ContextRequirements(_, _)
ContextRequirements(requirements, context_snapshots) ==
  IF context_snapshots = <<>> THEN requirements
  ELSE ContextRequirements(
         UpdateMaxRequirementPerPage(requirements, Reservations(Head(context_snapshots)),
                                     0, 0),
         Tail(context_snapshots))

\* "required" of CalculateFirstPageSizes for one space
RequiredSize(startup_requirements, context_requirements, space) ==
  startup_requirements[space] + 2 * context_requirements[space] + kObjectStartOffset
    + (IF space = CODE_SPACE THEN 32 * KB ELSE 0)

\* CalculateFirstPageSizes: sizes_out, indexed from 0
CalculateFirstPageSizes(startup_snapshot, context_snapshots) ==
  [i \in 0..(kNumPagedSpaces - 1) |->
     Min(RequiredSize(
           UpdateMaxRequirementPerPage([space \in 0..(kNumberOfSpaces - 1) |-> 0],
                                       Reservations(startup_snapshot), 0, 0),
           ContextRequirements([space \in 0..(kNumberOfSpaces - 1) |-> 0],
                               context_snapshots),
           i + FIRST_PAGED_SPACE),
         PageAreaSize(i + FIRST_PAGED_SPACE))]

RECURSIVE TotalLength(_)
TotalLength(snapshots) ==
  IF snapshots = <<>> THEN 0 ELSE Len(RawData(Head(snapshots))) + TotalLength(Tail(snapshots))

RECURSIVE CopyContexts(_, _, _, _)
\* the loop of CreateSnapshotBlob over the context snapshots
CopyContexts(data, context_snapshots, i, payload_offset) ==
  IF i >= Len(context_snapshots) THEN data
  ELSE CopyContexts(
         CopyBytes(CopyBytes(data, ContextSnapshotOffsetOffset(i),
                             Int32Bytes(payload_offset)),
                   payload_offset, RawData(context_snapshots[i + 1])),
         context_snapshots, i + 1,
         payload_offset + Len(RawData(context_snapshots[i + 1])))

RECURSIVE CopyPageSizes(_, _, _)
\* "memcpy(data + kFirstPageSizesOffset, first_page_sizes, kNumPagedSpaces * kInt32Size)"
CopyPageSizes(data, first_page_sizes, i) ==
  IF i >= kNumPagedSpaces THEN data
  ELSE CopyPageSizes(CopyBytes(data, kFirstPageSizesOffset + i * kInt32Size,
                               Int32Bytes(first_page_sizes[i])),
                     first_page_sizes, i + 1)

\* Snapshot::CreateSnapshotBlob
CreateSnapshotBlob(startup_snapshot, context_snapshots) ==
  [data |->
     CopyContexts(
       CopyBytes(
         CopyBytes(
           CopyPageSizes(
             AllocateData(StartupSnapshotOffset(Len(context_snapshots))
                          + Len(RawData(startup_snapshot)) + TotalLength(context_snapshots)),
             CalculateFirstPageSizes(startup_snapshot, context_snapshots), 0),
           kNumberOfContextsOffset, Int32Bytes(Len(context_snapshots))),
         StartupSnapshotOffset(Len(context_snapshots)), RawData(startup_snapshot)),
       context_snapshots, 0,
       StartupSnapshotOffset(Len(context_snapshots)) + Len(RawData(startup_snapshot))),
   raw_size |-> StartupSnapshotOffset(Len(context_snapshots))
                  + Len(RawData(startup_snapshot)) + TotalLength(context_snapshots)]

\* what a function that may fail a CHECK returns
Checked(ok, value) == [ok |-> ok, value |-> IF ok THEN value ELSE <<>>]

\* Snapshot::ExtractNumContexts
ExtractNumContexts(blob) ==
  Checked(kNumberOfContextsOffset < blob.raw_size,
          Int32At(blob.data, kNumberOfContextsOffset))

\* Snapshot::ExtractStartupData
ExtractStartupData(blob) ==
  IF ~ExtractNumContexts(blob).ok THEN Checked(FALSE, <<>>)
  ELSE IF ~(StartupSnapshotOffset(ExtractNumContexts(blob).value) < blob.raw_size)
  THEN Checked(FALSE, <<>>)
  ELSE Checked(Int32At(blob.data, ContextSnapshotOffsetOffset(0)) < blob.raw_size,
               Vector(blob.data, StartupSnapshotOffset(ExtractNumContexts(blob).value),
                      Int32At(blob.data, ContextSnapshotOffsetOffset(0))
                        - StartupSnapshotOffset(ExtractNumContexts(blob).value)))

\* ExtractContextData, "next_context_offset"
NextContextOffset(blob, index) ==
  IF index = ExtractNumContexts(blob).value - 1
  THEN Checked(TRUE, blob.raw_size)
  ELSE Checked(Int32At(blob.data, ContextSnapshotOffsetOffset(index + 1)) < blob.raw_size,
               Int32At(blob.data, ContextSnapshotOffsetOffset(index + 1)))

\* Snapshot::ExtractContextData
ExtractContextData(blob, index) ==
  IF ~ExtractNumContexts(blob).ok THEN Checked(FALSE, <<>>)
  ELSE IF ~(index < ExtractNumContexts(blob).value) THEN Checked(FALSE, <<>>)
  ELSE Checked(NextContextOffset(blob, index).ok,
               Vector(blob.data, Int32At(blob.data, ContextSnapshotOffsetOffset(index)),
                      NextContextOffset(blob, index).value
                        - Int32At(blob.data, ContextSnapshotOffsetOffset(index))))

\* Isolate::snapshot_available
snapshot_available(iso) == iso.snapshot_blob # NoBlob /\ iso.snapshot_blob.raw_size # 0

\* the consuming constructor SnapshotData(const Vector<const byte>) followed by
\* Deserializer(&snapshot_data): the constructor has CHECK(IsSane()), so data of
\* another version ends the process before a deserializer sees it
Deserialize(iso, extracted, kind, success) ==
  IF ~extracted.ok \/ ~IsSane(extracted.value, iso.build)
  THEN [iso EXCEPT !.state = "fatal"]
  ELSE [iso EXCEPT !.deserializers = Append(@, [kind |-> kind, data |-> extracted.value]),
                   !.state = IF kind = "startup"
                             THEN (IF success THEN "initialized" ELSE "failed") ELSE @,
                   !.contexts = IF kind = "context" /\ success THEN @ + 1 ELSE @]

\* Snapshot::Initialize; success is what Isolate::Init returns
Initialize(iso, success) ==
  IF ~snapshot_available(iso) THEN [iso EXCEPT !.state = "failed"]
  ELSE Deserialize(iso, ExtractStartupData(iso.snapshot_blob), "startup", success)

\* Snapshot::NewContextFromSnapshot; success is whether DeserializePartial
\* returns a context
NewContextFromSnapshot(iso, context_index, success) ==
  IF ~snapshot_available(iso) THEN iso
  ELSE Deserialize(iso, ExtractContextData(iso.snapshot_blob, context_index), "context",
                   success)

\* the builds of the engine: two versions, and a build whose version hash
\* collides with that of another
Builds == {[hash |-> 7, external_references |-> 1], [hash |-> 9, external_references |-> 1],
           [hash |-> 9, external_references |-> 2]}

\* one reservation for each space
ReservationsOf(chunk_size) ==
  [space \in 1..kNumberOfSpaces |-> [chunk_size |-> chunk_size * space, is_last |-> TRUE]]

Serializers ==
  [reservations : {ReservationsOf(8), ReservationsOf(300)},
   payload : {<<1>>, <<2, 3>>}]

ContextSerializers ==
  [reservations : {ReservationsOf(16)}, payload : {<<4>>, <<5, 6>>}]

RECURSIVE SnapshotsOf(_, _)
SnapshotsOf(serializers, build) ==
  IF serializers = <<>> THEN <<>>
  ELSE <<SnapshotData(Head(serializers), build)>> \o SnapshotsOf(Tail(serializers), build)

\* the code generator is idle while the snapshot is produced and consumed
InitSn ==
  /\ status_ = "UNUSED" /\ phase = "start" /\ result = "none"
  /\ cfg = UnitConfiguration
  /\ masm = <<>> /\ frame_is_built_ = FALSE /\ last_lazy_deopt_pc_ = 0
  /\ current_instruction_ = 0 /\ deferred_ = <<>> /\ deferred_index = 0
  /\ jump_table_ = <<>>
  /\ hydrogen_env = <<>> /\ environments = <<>>
  /\ translations_ = <<>> /\ deoptimizations_ = <<>>
  /\ deoptimization_literals_ = <<>> /\ safepoints_ = <<>>
  /\ bailout_reason = "kNoReason"
  /\ guards = <<>>
  /\ last = [op |-> "none"]
  /\ \E build \in Builds :
       isolate = [snapshot_blob |-> NoBlob, build |-> build, state |-> "created",
                  deserializers |-> <<>>, contexts |-> 0]

CodeGeneratorIdle ==
  UNCHANGED <<status_, phase, result, cfg, masm, frame_is_built_, last_lazy_deopt_pc_,
              current_instruction_, deferred_, deferred_index, jump_table_,
              environments, translations_, deoptimizations_,
              deoptimization_literals_, safepoints_, bailout_reason, hydrogen_env,
              guards>>

\* a build serializes a heap and its contexts into a blob, which the isolate
\* is given to start from
SetSnapshotBlob(build, startup, contexts) ==
  /\ isolate.state = "created" /\ isolate.snapshot_blob = NoBlob
  /\ isolate' = [isolate EXCEPT !.snapshot_blob =
                   CreateSnapshotBlob(SnapshotData(startup, build),
                                      SnapshotsOf(contexts, build))]
  /\ last' = [op |-> "CreateSnapshotBlob", build |-> build, startup |-> startup,
              contexts |-> contexts]
  /\ CodeGeneratorIdle

SnapshotInitialize(success) ==
  /\ isolate.state = "created"
  /\ isolate' = Initialize(isolate, success)
  /\ last' = [op |-> "Initialize",
              extracted |-> IF snapshot_available(isolate)
                            THEN ExtractStartupData(isolate.snapshot_blob)
                            ELSE Checked(FALSE, <<>>)]
  /\ CodeGeneratorIdle

SnapshotNewContext(context_index, success) ==
  /\ isolate.state = "initialized" /\ Len(isolate.deserializers) < MaxDeserializers + 1
  /\ isolate' = NewContextFromSnapshot(isolate, context_index, success)
  /\ last' = [op |-> "NewContextFromSnapshot",
              extracted |-> IF snapshot_available(isolate)
                            THEN ExtractContextData(isolate.snapshot_blob, context_index)
                            ELSE Checked(FALSE, <<>>)]
  /\ CodeGeneratorIdle

NextSn ==
  \/ \E build \in Builds, startup \in Serializers,
        contexts \in SeqsUpTo(ContextSerializers, MaxContexts) \ {<<>>} :
       SetSnapshotBlob(build, startup, contexts)
  \/ \E success \in BOOLEAN : SnapshotInitialize(success)
  \/ \E context_index \in 0..MaxContexts, success \in BOOLEAN :
       SnapshotNewContext(context_index, success)

SpecSn == InitSn /\ [][NextSn]_vars

\* =================================================================== claims
\* --------------------------------------- blobs written and read back (SpecBl)
NothingExtracted == Checked(FALSE, <<>>)

\* mksnapshot: CreateSnapshotBlob on the snapshots of a build
CreateBlob(build, startup, contexts) ==
  /\ isolate.state = "created" /\ isolate.snapshot_blob = NoBlob
  /\ isolate' = [isolate EXCEPT !.snapshot_blob =
                   CreateSnapshotBlob(SnapshotData(startup, build),
                                      SnapshotsOf(contexts, build))]
  /\ last' = [op |-> "CreateSnapshotBlob", build |-> build, startup |-> startup,
              contexts |-> contexts, index |-> 0, extracted |-> NothingExtracted]
  /\ CodeGeneratorIdle

\* one of the three extractions on the blob just written
Extract(op, index, extracted) ==
  /\ last.op = "CreateSnapshotBlob"
  /\ last' = [last EXCEPT !.op = op, !.index = index, !.extracted = extracted]
  /\ isolate' = isolate
  /\ CodeGeneratorIdle

NumContextsExtracted ==
  Extract("ExtractNumContexts", 0, ExtractNumContexts(isolate.snapshot_blob))

StartupDataExtracted ==
  Extract("ExtractStartupData", 0, ExtractStartupData(isolate.snapshot_blob))

ContextDataExtracted(index) ==
  Extract("ExtractContextData", index, ExtractContextData(isolate.snapshot_blob, index))

NextBl ==
  \/ \E build \in Builds, startup \in Serializers,
        contexts \in SeqsUpTo(ContextSerializers, MaxContexts) :
       CreateBlob(build, startup, contexts)
  \/ NumContextsExtracted
  \/ StartupDataExtracted
  \/ \E index \in 0..(MaxContexts - 1) : ContextDataExtracted(index)

SpecBl == InitSn /\ [][NextBl]_vars

\* ------------------------------------------------------------------- C1
PhaseOrder ==
  { <<"start", "prologue">>, <<"prologue", "body">>, <<"body", "body">>,
    <<"body", "deferred">>, <<"deferred", "deferred">>, <<"deferred", "jump_table">>,
    <<"jump_table", "safepoint_table">>, <<"safepoint_table", "finished">>,
    <<"prologue", "finished">>, <<"body", "finished">>, <<"deferred", "finished">>,
    <<"jump_table", "finished">> }

\* C1: the phases run in the order prologue, body, deferred code, jump table,
\* safepoint table; a phase is entered only with the unit not aborted; once the unit
\* is aborted the running phase ends GenerateCode with false, so that no later phase
\* emits anything, and the buffer only ever grows (no rollback).
C1_PhaseOrderAbortNoRollback ==
  [][ /\ <<phase, phase'>> \in PhaseOrder
      /\ (phase' # phase /\ phase' # "finished" => status_' # "ABORTED")
      /\ (phase' = "finished" /\ result' = "true"
            => phase = "safepoint_table" /\ status_' # "ABORTED")
      /\ (status_ = "ABORTED" => phase' = "finished" /\ result' = "false")
      /\ IsPrefix(masm, masm') ]_vars

\* an aborted unit: GenerateCode returned false and the emitted code is still there
C1_Witness ==
  /\ phase = "finished" /\ result = "false" /\ status_ = "ABORTED"
  /\ Len(masm) >= 3 /\ Len(deferred_) >= 1 /\ Len(jump_table_) >= 1

\* ------------------------------------------------------------------- C2
EmitsSafepointTable(buffer) == \E i \in 1..Len(buffer) : buffer[i].op = "safepoint_table"

\* C2: status_ moves UNUSED -> GENERATING at the start of GenerateCode and
\* GENERATING -> DONE only at the end of the deferred-code phase of a unit that is not
\* aborted; an aborted unit never becomes done; the safepoint table is emitted only
\* in status DONE.
C2_StatusTransitions ==
  [][ /\ (status_' # status_ =>
            <<status_, status_'>> \in { <<"UNUSED", "GENERATING">>,
                                        <<"GENERATING", "DONE">>,
                                        <<"GENERATING", "ABORTED">> })
      /\ (status_ = "UNUSED" /\ status_' = "GENERATING"
            => phase = "start" /\ phase' = "prologue")
      /\ (status_ # "DONE" /\ status_' = "DONE"
            => phase = "deferred" /\ phase' = "jump_table"
               /\ deferred_index >= Len(deferred_))
      /\ (status_ = "ABORTED" => status_' = "ABORTED")
      /\ (EmitsSafepointTable(masm') /\ ~EmitsSafepointTable(masm)
            => status_ = "DONE" /\ status_' = "DONE") ]_vars

\* a unit aborted inside a deferred block that left the deferred-code phase
C2_Witness ==
  /\ phase = "finished" /\ status_ = "ABORTED" /\ deferred_index >= 1
  /\ last.op = "GenerateDeferredEnd"

\* ------------------------------------------------------------------- C3
IsRegistration == last'.op = "RegisterEnvironmentForDeoptimization"

CountBegin(cmds) == Cardinality({i \in 1..Len(cmds) : cmds[i].op = "BEGIN"})

\* C3: RegisterEnvironmentForDeoptimization on a registered environment, in either
\* mode, leaves the deoptimization list, the translation buffer and the
\* environment's deoptimization index, translation index and pc offset unchanged;
\* every environment is in the list at most once and has one translation.
C3_ReRegistrationIsNoOp ==
  [][ IsRegistration =>
        /\ HasBeenRegistered(environments[last'.env]) =>
             /\ deoptimizations_' = deoptimizations_
             /\ translations_' = translations_
             /\ deoptimization_literals_' = deoptimization_literals_
             /\ environments'[last'.env].deoptimization_index
                  = environments[last'.env].deoptimization_index
             /\ environments'[last'.env].translation_index
                  = environments[last'.env].translation_index
             /\ environments'[last'.env].pc_offset = environments[last'.env].pc_offset
        /\ NoDuplicates(deoptimizations_')
        /\ CountBegin(translations_') = Len(deoptimizations_') ]_vars

\* an environment registered without lazy deopt was registered again, with lazy
\* deopt, after more code was emitted
C3_Witness ==
  /\ last.op = "RegisterEnvironmentForDeoptimization" /\ last.mode = "kLazyDeopt"
  /\ last.calls = <<>> /\ environments[last.env].translation_size >= 1
  /\ HasBeenRegistered(environments[last.env])
  /\ environments[last.env].pc_offset = -1
  /\ Len(masm) >= 2 /\ Len(deoptimizations_) = 1

\* ------------------------------------------------------------------- C4
\* C4: for every registered environment, the frames decoded from its translation are
\* the frames of its environment chain, outermost first, each logical slot with the
\* same kind and location or literal, captured objects with their fields and
\* duplicated objects resolved to the object they name.
C4_TranslationRoundTrip ==
  \A e \in 1..Len(environments) :
    HasBeenRegistered(environments[e]) =>
      DecodeTranslation(translations_, environments[e].translation_index,
                        deoptimization_literals_)
        = ExpectedFrames(hydrogen_env, e)

HasCommand(op) == \E i \in 1..Len(translations_) : translations_[i].op = op

\* a registered chain of two frames with a nested object and a duplicated object
C4_Witness ==
  /\ \E e \in 1..Len(environments) :
       /\ HasBeenRegistered(environments[e]) /\ environments[e].outer # NULL
       /\ Len(environments[e].object_mapping) >= 3
  /\ HasCommand("DUPLICATED_OBJECT") /\ HasCommand("ARGUMENTS_OBJECT")
  /\ HasCommand("CAPTURED_OBJECT") /\ HasCommand("UINT32_REGISTER")

\* ------------------------------------------------------------- C5 and C6
\* the object a recorded call of AddToTranslation on a marker is about
ObjectOf(c) == environments[c.env].object_mapping[c.object_index_in + 1]

IsObjectCall(c) == c.op = materialization_marker /\ ~ObjectOf(c).is_duplicate
IsDuplicateCall(c) == c.op = materialization_marker /\ ObjectOf(c).is_duplicate

\* the values()->at(i) reads made for the fields of the object of call c
FieldReads(c) ==
  SelectSeq(last.reads, LAMBDA r : r.env = c.env /\ r.parent = c.object_index_in)

\* call d was made while call c was running
Within(d, c) ==
  d.env = c.env /\ d.length_in > c.length_in /\ d.length_out <= c.length_out

\* C5: for a marker of a non-duplicate object of length n, AddToTranslation emits
\* one begin-object command carrying n, of the kind the object's arguments flag
\* says, and encodes exactly the n values at translation_size + the dematerialized
\* index on entry; the index is advanced by n before the fields are encoded, so
\* that no value is read twice and every value of the environment is encoded once.
C5_ObjectFieldsConsumed ==
  /\ \A i \in 1..Len(last.calls) :
       LET c == last.calls[i] IN
       IsObjectCall(c) =>
         /\ translations_[c.length_in + 1] =
              Cmd(IF ObjectOf(c).is_arguments THEN "ARGUMENTS_OBJECT"
                  ELSE "CAPTURED_OBJECT", ObjectOf(c).length_or_dupe, 0)
         /\ Len(FieldReads(c)) = ObjectOf(c).length_or_dupe
         /\ \A j \in 1..Len(FieldReads(c)) :
              FieldReads(c)[j].at =
                environments[c.env].translation_size + c.dematerialized_in + j - 1
         /\ c.object_index_out >= c.object_index_in + 1
         /\ \A k \in 1..Len(last.calls) :
              Within(last.calls[k], c) =>
                last.calls[k].dematerialized_in
                  >= c.dematerialized_in + ObjectOf(c).length_or_dupe
  /\ \A i, j \in 1..Len(last.reads) :
       last.reads[i].env = last.reads[j].env /\ last.reads[i].at = last.reads[j].at
         => i = j
  /\ \A i \in 1..Len(last.reads) :
       {last.reads[j].at : j \in {k \in 1..Len(last.reads) :
                                    last.reads[k].env = last.reads[i].env}}
         = 0..(Len(environments[last.reads[i].env].values) - 1)

\* an object with fields written inside another object with fields
C5_Witness ==
  \E i, j \in 1..Len(last.calls) :
    /\ IsObjectCall(last.calls[i]) /\ IsObjectCall(last.calls[j])
    /\ Within(last.calls[j], last.calls[i])
    /\ ObjectOf(last.calls[i]).length_or_dupe >= 2
    /\ ObjectOf(last.calls[j]).length_or_dupe >= 1
    /\ ObjectOf(last.calls[j]).is_arguments

\* the number an object has among the objects of its whole environment chain
GlobalObjectIndex(c) ==
  c.object_index_in
  + (IF environments[c.env].outer = NULL THEN 0
     ELSE Len(environments[environments[c.env].outer].objects_to_materialize))

\* C6: for a marker of a duplicate object AddToTranslation emits exactly one
\* duplicate-object command, naming an earlier object that is the same object, and
\* no field command; the object index advances by one and the dematerialized index
\* stays.
C6_DuplicateObjectBackReference ==
  \A i \in 1..Len(last.calls) :
    LET c == last.calls[i]
        objects == environments[c.env].objects_to_materialize
    IN IsDuplicateCall(c) =>
         /\ c.length_out = c.length_in + 1
         /\ translations_[c.length_out] =
              Cmd("DUPLICATED_OBJECT", ObjectOf(c).length_or_dupe, 0)
         /\ ObjectOf(c).length_or_dupe < GlobalObjectIndex(c)
         /\ objects[ObjectOf(c).length_or_dupe + 1] = objects[GlobalObjectIndex(c) + 1]
         /\ FieldReads(c) = <<>>
         /\ c.object_index_out = c.object_index_in + 1
         /\ c.dematerialized_out = c.dematerialized_in

\* a duplicate met after fields of another object were dematerialized
C6_Witness ==
  \E i \in 1..Len(last.calls) :
    /\ IsDuplicateCall(last.calls[i])
    /\ last.calls[i].dematerialized_in >= 2
    /\ last.calls[i].object_index_in >= 2
    /\ ObjectOf(last.calls[i]).length_or_dupe # last.calls[i].object_index_in

\* ------------------------------------------------------------------- C7
\* the tagged operands of a pointer map, as <<kind, slot index or register code>>
TaggedPointers(pointers) ==
  { <<pointers.pointer_operands[i].kind,
      IF IsRegister(pointers.pointer_operands[i])
      THEN ToRegister(pointers.pointer_operands[i])
      ELSE pointers.pointer_operands[i].index>> :
      i \in {k \in 1..Len(pointers.pointer_operands) :
               \A u \in 1..Len(pointers.untagged_operands) :
                 pointers.untagged_operands[u] # pointers.pointer_operands[k]} }

RecordedPointers(safepoint) ==
  {<<"STACK_SLOT", safepoint.indexes[i]>> : i \in 1..Len(safepoint.indexes)}
  \cup {<<"REGISTER", safepoint.registers[i]>> : i \in 1..Len(safepoint.registers)}

\* the safepoint was recorded at the offset right after a call in the buffer
AtCallOffset(safepoint) ==
  \E k \in 1..Len(masm) :
    /\ masm[k].op \in {"call_runtime", "call_code"}
    /\ pc_offset(SubSeq(masm, 1, k)) = safepoint.pc

\* C7 as stated: the safepoint of every instruction with a non-empty pointer map
\* records exactly the normalized pointer map, registers and stack slots.
C7_Original ==
  \A i \in 1..Len(safepoints_) :
    safepoints_[i].pointers.pointer_operands # <<>> =>
      /\ AtCallOffset(safepoints_[i])
      /\ RecordedPointers(safepoints_[i]) = TaggedPointers(safepoints_[i].pointers)
      /\ NoDuplicates(safepoints_[i].indexes) /\ NoDuplicates(safepoints_[i].registers)

\* C7 amended: the safepoint is recorded at the offset after the call, its stack
\* slots are exactly the tagged stack slots of the pointer map, and its registers
\* are exactly the tagged registers of the pointer map when the safepoint kind is
\* with-registers and none otherwise; nothing is recorded twice.
C7_SafepointCompleteness ==
  \A i \in 1..Len(safepoints_) :
    LET safepoint == safepoints_[i]
        tagged == TaggedPointers(safepoint.pointers)
    IN /\ AtCallOffset(safepoint)
       /\ RecordedPointers(safepoint) =
            {p \in tagged : p[1] = "STACK_SLOT"
                            \/ (p[1] = "REGISTER" /\ safepoint.kind = "kWithRegisters")}
       /\ NoDuplicates(safepoint.indexes) /\ NoDuplicates(safepoint.registers)

\* a pointer map with a repeated operand, an untagged operand and a register, recorded
\* at a simple safepoint and at a safepoint with registers
C7_Witness ==
  /\ Len(cfg.pointer_map.pointer_operands) = 3
  /\ Cardinality(TaggedPointers(cfg.pointer_map)) = 1
  /\ \E i, j \in 1..Len(safepoints_) :
       /\ safepoints_[i].kind = "kSimple" /\ safepoints_[j].kind = "kWithRegisters"
       /\ safepoints_[i].registers = <<>> /\ safepoints_[i].indexes = <<>>
       /\ safepoints_[j].registers = <<6>>

\* ------------------------------------------------------ C8, C9, C10: guards
\* a guard of the log that went through the jump table
TableRouted(guard) == ~(guard.cc = "no_condition" /\ guard.frame_is_built)

GuardsEquivalent(x, y) ==
  /\ x.address = y.address /\ x.bailout_type = y.bailout_type
  /\ x.frame_is_built = y.frame_is_built

TableGuards == SelectSeq(guards, TableRouted)

\* the number of the run of consecutive equivalent table-routed guards guard k is in
RunOf(T, k) == 1 + Cardinality({j \in 2..k : ~GuardsEquivalent(T[j-1], T[j])})

NoTracing == ~cfg.FLAG_trace_deopt /\ ~cfg.is_profiling

\* C8: without deopt tracing and profiling every run of consecutive equivalent
\* table-routed guards has exactly one jump-table entry, and every guard of the run
\* branches to the label of that entry.
C8_ConsecutiveGuardsShareEntry ==
  NoTracing =>
    /\ Len(jump_table_) = (IF TableGuards = <<>> THEN 0
                           ELSE RunOf(TableGuards, Len(TableGuards)))
    /\ \A k \in 1..Len(TableGuards) :
         LET guard == TableGuards[k]
             table_entry == jump_table_[RunOf(TableGuards, k)]
         IN /\ table_entry.address = guard.address
            /\ table_entry.bailout_type = guard.bailout_type
            /\ table_entry.needs_frame = ~guard.frame_is_built
            /\ masm[guard.at].op \in {"jmp_table", "j_table"}
            /\ masm[guard.at].a = RunOf(TableGuards, k) - 1

\* three consecutive equivalent table-routed guards and one jump-table entry
C8_Witness ==
  /\ NoTracing /\ Len(TableGuards) = 3 /\ Len(jump_table_) = 1
  /\ \A k \in 1..3 : masm[TableGuards[k].at].a = 0

\* the guard a step adds to the log
NewGuard == Last(guards')
AddsGuard == Len(guards') = Len(guards) + 1
NewEntry ==
  [address |-> NewGuard.address, bailout_type |-> NewGuard.bailout_type,
   needs_frame |-> ~NewGuard.frame_is_built]

\* C9: a table-routed guard adds a jump-table entry unless tracing and profiling are
\* off and the last entry of the table is equivalent to it, whatever earlier entries
\* the table holds; with tracing or profiling on it always adds one.
C9_DedupAgainstLastOnly ==
  [][ AddsGuard /\ TableRouted(NewGuard) =>
        IF ~NoTracing \/ jump_table_ = <<>>
           \/ ~IsEquivalentTo(NewEntry, Last(jump_table_))
        THEN /\ Len(jump_table_') = Len(jump_table_) + 1
             /\ SubSeq(jump_table_', 1, Len(jump_table_)) = jump_table_
             /\ IsEquivalentTo(NewEntry, Last(jump_table_'))
             /\ masm'[NewGuard.at].a = Len(jump_table_)
        ELSE /\ jump_table_' = jump_table_
             /\ masm'[NewGuard.at].a = Len(jump_table_) - 1 ]_vars

\* the guard sequence A, B, A left three entries
C9_Witness ==
  /\ NoTracing /\ Len(jump_table_) = 3 /\ Len(TableGuards) = 3
  /\ IsEquivalentTo(jump_table_[1], jump_table_[3])
  /\ ~IsEquivalentTo(jump_table_[1], jump_table_[2])

\* C10 as stated: a guard emitted with the frame built and no tracing or profiling
\* is a direct call of the bailout entry, every other guard a branch to the jump table.
C10_Original ==
  \A k \in 1..Len(guards) :
    IF guards[k].frame_is_built /\ NoTracing
    THEN masm[guards[k].at].op = "call_entry"
    ELSE masm[guards[k].at].op \in {"jmp_table", "j_table"}

\* C10 amended: a guard is a direct call of its bailout entry, adding no jump-table
\* entry, exactly when it is unconditional and the frame is built, whether or not
\* tracing or profiling is active; every other guard branches to the label of the
\* last jump-table entry, which is equivalent to the guard's entry.
C10_DirectCallOnlyUnconditional ==
  [][ AddsGuard =>
        IF NewGuard.cc = "no_condition" /\ NewGuard.frame_is_built
        THEN /\ jump_table_' = jump_table_
             /\ masm'[NewGuard.at] = Ins("call_entry", NewGuard.address, 0)
        ELSE /\ jump_table_' # <<>>
             /\ IsEquivalentTo(NewEntry, Last(jump_table_'))
             /\ masm'[NewGuard.at] =
                  Ins(IF NewGuard.cc = "no_condition" THEN "jmp_table" ELSE "j_table",
                      Len(jump_table_') - 1, 0) ]_vars

\* a conditional guard emitted with the frame built went through the jump table,
\* and an unconditional one under tracing was a direct call
C10_Witness ==
  /\ \E k \in 1..Len(guards) :
       /\ guards[k].cc # "no_condition" /\ guards[k].frame_is_built
       /\ masm[guards[k].at].op = "j_table"
  /\ \E k \in 1..Len(guards) :
       /\ guards[k].cc = "no_condition" /\ guards[k].frame_is_built
       /\ cfg.FLAG_trace_deopt /\ masm[guards[k].at].op = "call_entry"

\* ---------------------------------------------------------------------- C11
BranchCalls == {i \in 1..Len(last.calls) : last.calls[i].fn = "EmitBranch"}

OneDestination(c) == TrueDestination(cfg, c.instr) = FalseDestination(cfg, c.instr)

CountOp(code, op) == Cardinality({i \in 1..Len(code) : code[i].op = op})

\* C11 as stated: a branch whose two destinations resolve to one block is emitted
\* as exactly one unconditional jump and no conditional jump, whatever block is
\* emitted next
C11_Original ==
  (last.op \in {"DoCompareNumericAndBranch", "DoCmpObjectEqAndBranch"}) =>
    \A i \in BranchCalls :
      OneDestination(last.calls[i]) =>
        /\ CountOp(last.calls[i].code, "jmp") = 1
        /\ CountOp(last.calls[i].code, "j") = 0

\* C11: for a conditional branch whose true and false destinations resolve to
\* the same block, EmitBranch emits no conditional jump; it emits exactly one
\* unconditional jump, to that block's label, when the block is not the next
\* emitted block, and nothing at all when it is
C11_BranchToOneDestination ==
  (last.op \in {"DoCompareNumericAndBranch", "DoCmpObjectEqAndBranch"}) =>
    \A i \in BranchCalls :
      OneDestination(last.calls[i]) =>
        /\ last.calls[i].cc # "no_condition"
        /\ last.calls[i].code =
             IF TrueDestination(cfg, last.calls[i].instr) = GetNextEmittedBlock(cfg)
             THEN <<>>
             ELSE <<Ins("jmp", GetAssemblyLabel(TrueDestination(cfg, last.calls[i].instr)), 0)>>

\* two different successor blocks resolve to the block emitted next: nothing is emitted
C11_Witness ==
  /\ last.op = "DoCmpObjectEqAndBranch"
  /\ \E i \in BranchCalls :
       /\ OneDestination(last.calls[i])
       /\ last.instr.true_block_id # last.instr.false_block_id
       /\ TrueDestination(cfg, last.instr) = GetNextEmittedBlock(cfg)
       /\ last.calls[i].code = <<>>

\* ---------------------------------------------------------------------- C12
DoubleValues == {NaN, Double(-1), Double(0), Double(1)}

\* the machine states a double comparison may run in
DoubleMachines == [xmm : [{ToDoubleRegister(LOperand("DOUBLE_REGISTER", 0)),
                           ToDoubleRegister(LOperand("DOUBLE_REGISTER", 1))} -> DoubleValues]]

\* the double an operand of the comparison holds at run time
OperandDouble(m, op) ==
  IF IsConstantOperand(op) THEN ToDouble(op) ELSE m.xmm[ToDoubleRegister(op)]

Unordered(m, instr) == OperandDouble(m, instr.left).nan \/ OperandDouble(m, instr.right).nan

IsDoubleCompare == last.op = "DoCompareNumericAndBranch" /\ last.instr.is_double

Folded(instr) == IsConstantOperand(instr.left) /\ IsConstantOperand(instr.right)

Reached(m) == Exec(last.code, 1, m, NoFlags, GetNextEmittedBlock(cfg))

\* C12 as stated: the unordered outcome of a double comparison reaches neither
\* the true destination nor the false destination
C12_Original ==
  IsDoubleCompare =>
    \A m \in DoubleMachines :
      Unordered(m, last.instr) =>
        /\ Reached(m) # TrueDestination(cfg, last.instr)
        /\ Reached(m) # FalseDestination(cfg, last.instr)

\* C12: in DoCompareNumericAndBranch on doubles compared at run time, the
\* unordered (NaN) outcome is taken by a parity jump of its own, emitted before
\* the branch on the condition, and always reaches the false destination,
\* whatever the token and the block layout; an ordered outcome reaches the true
\* destination exactly when the comparison holds; two constants are compared
\* when the code is generated and the jump goes where EvalComparison says
C12_UnorderedReachesFalseDestination ==
  IsDoubleCompare =>
    \A m \in DoubleMachines :
      Reached(m) =
        IF /\ EvalComparison(last.instr.op, OperandDouble(m, last.instr.left),
                             OperandDouble(m, last.instr.right))
           /\ (Unordered(m, last.instr) => Folded(last.instr))
        THEN TrueDestination(cfg, last.instr)
        ELSE FalseDestination(cfg, last.instr)

\* a comparison of two registers with two distinct destinations, for a token
\* whose condition holds on the flags of an unordered result
C12_Witness ==
  /\ IsDoubleCompare
  /\ ~IsConstantOperand(last.instr.left) /\ ~IsConstantOperand(last.instr.right)
  /\ last.instr.op = "LTE"
  /\ TrueDestination(cfg, last.instr) # FalseDestination(cfg, last.instr)
  /\ last.code[2] = Ins("j", "parity_even",
                        GetAssemblyLabel(FalseDestination(cfg, last.instr)))
  /\ \E m \in DoubleMachines :
       Unordered(m, last.instr) /\ Reached(m) = FalseDestination(cfg, last.instr)

\* ------------------------------------------------- running an arithmetic lowering
\* the operand that holds the dividend or the left operand
LeftOperand(instr) == IF "dividend" \in DOMAIN instr THEN instr.dividend ELSE instr.left

HasConstantDivisor(instr) ==
  instr.op \in {"ModByPowerOf2I", "ModByConstI", "DivByPowerOf2I", "DivByConstI",
                "FlooringDivByPowerOf2I", "FlooringDivByConstI"}

\* the operand that holds the divisor or the right operand, if it is an operand
RightOperand(instr) == IF "divisor" \in DOMAIN instr THEN instr.divisor ELSE instr.right

\* the word the right operand has at run time when the register or stack slot
\* it may live in holds y
RightWord(instr, y) ==
  IF HasConstantDivisor(instr) THEN instr.divisor
  ELSE IF IsConstantOperand(RightOperand(instr))
  THEN ToRepresentation(RightOperand(instr),
                        IF instr.op = "MulI" THEN "Integer32" ELSE instr.representation)
  ELSE y

Placed(m, op, v) ==
  IF op.kind = "REGISTER" THEN [m EXCEPT !.reg[ToRegister(op)] = v]
  ELSE IF op.kind = "STACK_SLOT" THEN [m EXCEPT !.slot[op.index] = v]
  ELSE m

\* the machine state the lowered instruction starts in: x in the left operand, y
\* in the right one, the other registers holding a word left by earlier code
StartMachine(instr, x, y) ==
  Placed(IF HasConstantDivisor(instr)
         THEN [reg |-> [r \in 0..3 |-> 3], slot |-> [i \in {0} |-> 3], flags |-> NoFlags]
         ELSE Placed([reg |-> [r \in 0..3 |-> 3], slot |-> [i \in {0} |-> 3],
                      flags |-> NoFlags],
                     RightOperand(instr), y),
         LeftOperand(instr), x)

\* the outcome of the code of the last lowered instruction for inputs x and y
Outcome(x, y) ==
  Run(masm, guards, Len(masm) - Len(last.code) + 1, StartMachine(last.instr, x, y))

Deopts(out, reason) == out.kind = "deopt" /\ out.reason = reason

ResultWord(out) == out.m.reg[ToRegister(last.instr.result)]

\* the words a register of the given representation may hold: a Smi has its
\* tag bit clear
WordsOf(instr) ==
  IF "representation" \in DOMAIN instr /\ instr.representation = "Smi"
  THEN {w \in Words : w % 2 = 0} ELSE Words

\* ---------------------------------------------------------------------- C14
\* the result of the operation in infinite precision, on the words the operands hold
Exact(instr, x, y) ==
  CASE instr.op = "AddI" -> x + RightWord(instr, y)
    [] instr.op = "SubI" -> x - RightWord(instr, y)
    [] instr.op = "MulI" ->
         IF instr.representation = "Smi" /\ ~IsConstantOperand(instr.right)
         THEN (x \div 2) * RightWord(instr, y)
         ELSE x * RightWord(instr, y)

IsCanOverflowArithmetic ==
  /\ last.op \in {"DoAddI", "DoSubI", "DoMulI"}
  /\ CheckFlag(last.instr, "kCanOverflow")

\* C14: for AddI, SubI and MulI flagged can-overflow (MulI by -1, 0 and 2
\* included) the emitted operation followed by its overflow guard deoptimizes
\* with reason overflow exactly when the word-sized result differs from the
\* infinite-precision result, and a result that does not deopt equals the
\* mathematical result
C14_OverflowGuardExact ==
  IsCanOverflowArithmetic =>
    \A x \in WordsOf(last.instr), y \in WordsOf(last.instr) :
      /\ Outcome(x, y).kind \in {"done", "deopt"}
      /\ Deopts(Outcome(x, y), "kOverflow") <=> Exact(last.instr, x, y) \notin Words
      /\ Outcome(x, y).kind = "done" => ResultWord(Outcome(x, y)) = Exact(last.instr, x, y)
      /\ (Outcome(x, y).kind = "deopt" /\ ~CheckFlag(last.instr, "kBailoutOnMinusZero"))
           => Deopts(Outcome(x, y), "kOverflow")

\* a multiplication by the constant -1, lowered to neg, that overflows on kMinInt
\* and on nothing else
C14_Witness ==
  /\ IsCanOverflowArithmetic
  /\ last.op = "DoMulI" /\ IsConstantOperand(last.instr.right)
  /\ ToInteger32(last.instr.right) = -1
  /\ last.instr.representation = "Integer32"
  /\ Deopts(Outcome(kMinInt, 0), "kOverflow")
  /\ Outcome(kMaxInt, 0).kind = "done"
  /\ ResultWord(Outcome(kMaxInt, 0)) = -kMaxInt

\* ---------------------------------------------------------------------- C13
ConstantDivisorLowerings == {"DoModByConstI", "DoDivByConstI", "DoFlooringDivByConstI"}
PowerOf2Lowerings == {"DoModByPowerOf2I", "DoDivByPowerOf2I", "DoFlooringDivByPowerOf2I"}
RegisterDivisorLowerings == {"DoModI", "DoDivI", "DoFlooringDivI"}

IsDivisionLowering ==
  last.op \in ConstantDivisorLowerings \cup PowerOf2Lowerings \cup RegisterDivisorLowerings

\* the reasons of the guards the last lowering emitted
ReasonsEmitted == {guards[k].reason : k \in 1..Len(guards)}

\* C13 as stated: every division and modulo lowering deoptimizes with reason
\* division-by-zero whenever the divisor is 0, whatever flags it carries
C13_Original ==
  IsDivisionLowering =>
    \A x \in Words, y \in Words :
      RightWord(last.instr, y) = 0 => Deopts(Outcome(x, y), "kDivisionByZero")

\* C13: a division or modulo by the constant 0 deoptimizes unconditionally with
\* reason division-by-zero whatever flags the instruction carries; a lowering
\* with a register divisor deoptimizes with that reason on a zero divisor
\* exactly when the instruction carries kCanBeDivByZero, whatever its other
\* flags, truncating, flooring and modulo alike; without that flag it emits no
\* such guard and a zero divisor reaches idiv; the power-of-two lowerings never
\* have a zero divisor and emit no such guard; no lowering deoptimizes with
\* that reason on a divisor other than 0
C13_DivisionByZeroDeopts ==
  IsDivisionLowering =>
    /\ \A x \in Words, y \in Words :
         /\ Deopts(Outcome(x, y), "kDivisionByZero") => RightWord(last.instr, y) = 0
         /\ (RightWord(last.instr, y) = 0 /\ last.op \in ConstantDivisorLowerings)
              => Deopts(Outcome(x, y), "kDivisionByZero")
         /\ (RightWord(last.instr, y) = 0 /\ last.op \in RegisterDivisorLowerings)
              => IF CheckFlag(last.instr, "kCanBeDivByZero")
                 THEN Deopts(Outcome(x, y), "kDivisionByZero")
                 ELSE Outcome(x, y).kind = "fault"
    /\ last.op \in PowerOf2Lowerings
         => last.instr.divisor # 0 /\ "kDivisionByZero" \notin ReasonsEmitted
    /\ last.op \in RegisterDivisorLowerings
         => ("kDivisionByZero" \in ReasonsEmitted <=> CheckFlag(last.instr, "kCanBeDivByZero"))

\* a flooring division by a register, flagged kCanBeDivByZero and nothing else,
\* run with a zero divisor
C13_Witness ==
  /\ last.op = "DoFlooringDivI"
  /\ last.instr.flags = {"kCanBeDivByZero"}
  /\ Deopts(Outcome(kMinInt, 0), "kDivisionByZero")
  /\ Outcome(kMinInt, 1).kind = "done"

\* ---------------------------------------------------------------------- C15
IsArithmeticLowering ==
  IsDivisionLowering \/ last.op \in {"DoMulI", "DoAddI", "DoSubI"}

IsModulo(instr) == instr.op \in {"ModByPowerOf2I", "ModByConstI", "ModI"}

\* the inputs the flags of the instruction allow: range analysis clears a flag
\* only when the case cannot arise
FlagsAllow(instr, x, d) ==
  /\ (instr.op \in {"ModByPowerOf2I", "FlooringDivByConstI"}
        /\ ~CheckFlag(instr, "kLeftCanBeNegative")) => x >= 0
  /\ (instr.op = "FlooringDivByConstI" /\ ~CheckFlag(instr, "kLeftCanBePositive")) => x <= 0
  /\ (instr.op = "FlooringDivByPowerOf2I" /\ ~CheckFlag(instr, "kLeftCanBeMinInt"))
        => x # kMinInt
  /\ (instr.op \in {"ModI", "DivI", "FlooringDivI"} /\ ~CheckFlag(instr, "kCanBeDivByZero"))
        => d # 0
  /\ (instr.op \in {"ModI", "DivI", "FlooringDivI", "DivByPowerOf2I"}
        /\ ~CheckFlag(instr, "kCanOverflow")) => ~(x = kMinInt /\ d = -1)

\* the result does not fit a word
Overflows(instr, x, y) ==
  IF instr.op \in {"AddI", "SubI", "MulI"} THEN Exact(instr, x, y) \notin Words
  ELSE x = kMinInt /\ RightWord(instr, y) = -1

\* the result is negative zero
NegativeZero(instr, x, y) ==
  IF instr.op = "MulI" THEN Exact(instr, x, y) = 0 /\ (x < 0 \/ RightWord(instr, y) < 0)
  ELSE IF IsModulo(instr)
  THEN /\ x < 0 /\ RightWord(instr, y) # 0
       /\ x - RightWord(instr, y) * TruncDiv(x, RightWord(instr, y)) = 0
  ELSE x = 0 /\ RightWord(instr, y) < 0

\* C15 as stated: a lowering flagged can-overflow emits a guard with reason
\* overflow and one flagged bailout-on-minus-zero emits a guard with reason
\* minus-zero, for every combination of the other flags and operands
C15_Original ==
  IsArithmeticLowering =>
    /\ CheckFlag(last.instr, "kCanOverflow") => "kOverflow" \in ReasonsEmitted
    /\ CheckFlag(last.instr, "kBailoutOnMinusZero") => "kMinusZero" \in ReasonsEmitted

\* C15: on every input its flags allow, an arithmetic lowering flagged
\* can-overflow deoptimizes with reason overflow whenever the result does not
\* fit (ModI, which never reports overflow, deoptimizes with reason minus-zero
\* on kMinInt % -1 if flagged bailout-on-minus-zero and yields 0 otherwise), and
\* one flagged bailout-on-minus-zero deoptimizes with reason minus-zero whenever
\* the result is negative zero; a deopt with either reason happens on no other
\* input, and the guard is left out where a constant operand or another flag
\* rules the case out
C15_FlaggedCasesDeopt ==
  IsArithmeticLowering =>
    \A x \in WordsOf(last.instr), y \in WordsOf(last.instr) :
      FlagsAllow(last.instr, x, RightWord(last.instr, y)) =>
        /\ (CheckFlag(last.instr, "kCanOverflow") /\ Overflows(last.instr, x, y))
             => IF last.instr.op # "ModI" THEN Deopts(Outcome(x, y), "kOverflow")
                ELSE IF CheckFlag(last.instr, "kBailoutOnMinusZero")
                THEN Deopts(Outcome(x, y), "kMinusZero")
                ELSE Outcome(x, y).kind = "done" /\ ResultWord(Outcome(x, y)) = 0
        /\ (CheckFlag(last.instr, "kBailoutOnMinusZero") /\ NegativeZero(last.instr, x, y))
             => Deopts(Outcome(x, y), "kMinusZero")
        /\ Deopts(Outcome(x, y), "kOverflow") => Overflows(last.instr, x, y)
        /\ Deopts(Outcome(x, y), "kMinusZero")
             => NegativeZero(last.instr, x, y) \/ Overflows(last.instr, x, y)

\* ModI flagged can-overflow and bailout-on-minus-zero: no guard has reason
\* overflow, and kMinInt % -1 deoptimizes with reason minus-zero
C15_Witness ==
  /\ last.op = "DoModI"
  /\ last.instr.flags = {"kCanOverflow", "kBailoutOnMinusZero"}
  /\ "kOverflow" \notin ReasonsEmitted
  /\ Deopts(Outcome(kMinInt, -1), "kMinusZero")
  /\ Deopts(Outcome(-2, 1), "kMinusZero")
  /\ Outcome(2, 1).kind = "done"

\* ---------------------------------------------------------------------- C16
IsBoundsCheck == last.op = "DoBoundsCheck" /\ ~IsSIMD128LoadStoreOp(last.instr.builtin)

IndexWord(instr, x) ==
  IF IsConstantOperand(instr.index)
  THEN ToRepresentation(instr.index, instr.index_representation) ELSE x

LengthWord(instr, y) ==
  IF IsConstantOperand(instr.length)
  THEN ToRepresentation(instr.length, instr.length_representation) ELSE y

\* the machine a bounds check starts in: x in the index, y in the length
BoundsMachine(instr, x, y) ==
  Placed(Placed([reg |-> [r \in 0..3 |-> 3], slot |-> [i \in {0} |-> 3], flags |-> NoFlags],
                instr.length, y),
         instr.index, x)

BoundsOutcome(x, y) ==
  Run(masm, guards, Len(masm) - Len(last.code) + 1, BoundsMachine(last.instr, x, y))

\* "index < length OR (allow_equality AND index == length)", unsigned
InBounds(instr, x, y) ==
  \/ Unsigned(IndexWord(instr, x)) < Unsigned(LengthWord(instr, y))
  \/ instr.allow_equality /\ IndexWord(instr, x) = LengthWord(instr, y)

BoundsWords(instr) ==
  IF instr.index_representation = "Smi" THEN {w \in Words : w % 2 = 0} ELSE Words

\* C16 as stated: the code of a bounds check of a non-SIMD access deoptimizes
\* with reason out-of-bounds exactly when the check fails
C16_Original ==
  IsBoundsCheck =>
    \A x \in BoundsWords(last.instr), y \in BoundsWords(last.instr) :
      Deopts(BoundsOutcome(x, y), "kOutOfBounds") <=> ~InBounds(last.instr, x, y)

\* C16: unless the unit is compiled with --debug-code and the check is marked
\* skip_check, the code of a bounds check of a non-SIMD access deoptimizes with
\* reason out-of-bounds exactly when NOT (index < length OR (allow_equality AND
\* index == length)), compared unsigned, in each of the three operand forms; with
\* --debug-code and skip_check it never deoptimizes and traps (int3) on exactly
\* those inputs
C16_BoundsCheckExact ==
  IsBoundsCheck =>
    \A x \in BoundsWords(last.instr), y \in BoundsWords(last.instr) :
      IF cfg.FLAG_debug_code /\ last.instr.skip_check
      THEN /\ BoundsOutcome(x, y).kind \in {"done", "trap"}
           /\ BoundsOutcome(x, y).kind = "trap" <=> ~InBounds(last.instr, x, y)
      ELSE /\ BoundsOutcome(x, y).kind \in {"done", "deopt"}
           /\ Deopts(BoundsOutcome(x, y), "kOutOfBounds") <=> ~InBounds(last.instr, x, y)

\* a check without allow_equality, index and length in registers: equal index
\* and length deoptimize, and so does an index that is negative as a signed word
C16_Witness ==
  /\ IsBoundsCheck /\ ~cfg.FLAG_debug_code
  /\ ~last.instr.allow_equality
  /\ ~IsConstantOperand(last.instr.index) /\ ~IsConstantOperand(last.instr.length)
  /\ last.instr.index_representation = "Integer32"
  /\ Deopts(BoundsOutcome(2, 2), "kOutOfBounds")
  /\ Deopts(BoundsOutcome(-1, 2), "kOutOfBounds")
  /\ BoundsOutcome(1, 2).kind = "done"

\* ---------------------------------------------------------------------- C17
IsKeyedLoad ==
  last.op \in {"DoLoadKeyedFixedArray", "DoLoadKeyedFixedDoubleArray"}
    /\ status_ # "ABORTED"

\* the registers a keyed load starts with: a tagged pointer to the elements and
\* the key
LoadRegisters(instr, k) ==
  [reg |-> [r \in 0..3 |-> IF r = ToRegister(instr.elements) THEN 1
                           ELSE IF ~IsConstantOperand(instr.key) /\ r = ToRegister(instr.key)
                           THEN k ELSE 3]]

ElementAddress(instr, k) ==
  EffectiveAddress(LoadRegisters(instr, k),
                   BuildFastArrayOperand(instr.elements, instr.key, instr.key_representation,
                                         IF instr.op = "LoadKeyedFixedArray"
                                         THEN "FAST_ELEMENTS" ELSE "FAST_DOUBLE_ELEMENTS",
                                         instr.base_offset))

\* the machine a keyed load starts in: the element the key addresses holds the
\* words v and (the upper word of a double) w, the array protector cell holds p
LoadMachine(instr, k, v, w, p) ==
  [reg |-> LoadRegisters(instr, k).reg, slot |-> [i \in {0} |-> 3], flags |-> NoFlags,
   xmm |-> [r \in 0..7 |-> [lower |-> 0, upper |-> 0]],
   mem |-> [a \in Words |->
              IF a = ElementAddress(instr, k) THEN v
              ELSE IF instr.op = "LoadKeyedFixedDoubleArray"
                      /\ a = Wrap(ElementAddress(instr, k) + kPointerSize) THEN w
              ELSE IF a = Wrap(array_protector + kValueOffset - kHeapObjectTag) THEN p
              ELSE 0]]

LoadOutcome(k, v, w, p) ==
  Run(masm, guards, Len(masm) - Len(last.code) + 1, LoadMachine(last.instr, k, v, w, p))

\* the keys a register may hold
KeyWords(instr) == IF instr.key_representation = "Smi" THEN {0, 2} ELSE {0, 1}

ProtectorWords == {SmiFromInt(kArrayProtectorValid), SmiFromInt(0)}

\* the words of the element: every tagged word, and of a double, whose lower
\* word the load only copies, three lower words
ElementWords(instr) ==
  IF instr.op = "LoadKeyedFixedDoubleArray" THEN {0, 1, kMaxInt} ELSE Words

\* the upper words of the element: only a double has one
UpperWords(instr) == IF instr.op = "LoadKeyedFixedDoubleArray" THEN Words ELSE {0}

\* the element read is the hole
IsHole(instr, v, w) ==
  IF instr.op = "LoadKeyedFixedArray" THEN v = the_hole_value ELSE w = kHoleNanUpper32

\* the load completes with the element in its result
Loads(instr, out, v, w) ==
  /\ out.kind = "done"
  /\ IF instr.op = "LoadKeyedFixedArray" THEN out.m.reg[ToRegister(instr.result)] = v
     ELSE out.m.xmm[ToDoubleRegister(instr.result)] = [lower |-> v, upper |-> w]

\* the load completes with undefined in its result
LoadsUndefined(instr, out) ==
  /\ out.kind = "done"
  /\ instr.op = "LoadKeyedFixedArray"
  /\ out.m.reg[ToRegister(instr.result)] = undefined_value

\* C17 as stated: a load declared convert-hole-to-undefined that reads the hole
\* yields undefined and does not deoptimize; a load from an array of the same
\* kind that requires a hole check and reads the hole deoptimizes with reason hole
C17_Original ==
  IsKeyedLoad =>
    \A k \in KeyWords(last.instr), v \in ElementWords(last.instr),
       w \in UpperWords(last.instr), p \in ProtectorWords :
      IsHole(last.instr, v, w) =>
        /\ last.instr.hydrogen.hole_mode = "CONVERT_HOLE_TO_UNDEFINED"
             => LoadsUndefined(last.instr, LoadOutcome(k, v, w, p))
        /\ (RequiresHoleCheck(last.instr.hydrogen)
              /\ ~IsFastSmiElementsKind(last.instr.hydrogen.elements_kind))
             => Deopts(LoadOutcome(k, v, w, p), "kHole")

\* C17: a keyed load from a FAST_HOLEY_ELEMENTS array declared
\* convert-hole-to-undefined that reads the hole yields undefined without a
\* deopt in non-stub code, and in a stub only while the array protector is
\* valid: with an invalid protector the stub deoptimizes with reason hole. A
\* load that requires a hole check deoptimizes on the hole, with reason hole
\* for object and double arrays and with reason not-a-smi for Smi arrays. A
\* load from a double array declared convert-hole-to-undefined returns the hole
\* NaN as it is. Every other element is loaded unchanged.
C17_HolePolicy ==
  IsKeyedLoad =>
    \A k \in KeyWords(last.instr), v \in ElementWords(last.instr),
       w \in UpperWords(last.instr), p \in ProtectorWords :
      IF RequiresHoleCheck(last.instr.hydrogen)
      THEN IF last.op = "DoLoadKeyedFixedArray"
              /\ IsFastSmiElementsKind(last.instr.hydrogen.elements_kind)
           THEN IF v % 2 = 1 THEN Deopts(LoadOutcome(k, v, w, p), "kNotASmi")
                ELSE Loads(last.instr, LoadOutcome(k, v, w, p), v, w)
           ELSE IF IsHole(last.instr, v, w) THEN Deopts(LoadOutcome(k, v, w, p), "kHole")
                ELSE Loads(last.instr, LoadOutcome(k, v, w, p), v, w)
      ELSE IF last.op = "DoLoadKeyedFixedArray"
              /\ last.instr.hydrogen.hole_mode = "CONVERT_HOLE_TO_UNDEFINED"
              /\ IsHole(last.instr, v, w)
      THEN IF cfg.IsStub /\ p # SmiFromInt(kArrayProtectorValid)
           THEN Deopts(LoadOutcome(k, v, w, p), "kHole")
           ELSE LoadsUndefined(last.instr, LoadOutcome(k, v, w, p))
      ELSE Loads(last.instr, LoadOutcome(k, v, w, p), v, w)

\* a stub loading from an array declared convert-hole-to-undefined: the hole
\* becomes undefined under a valid array protector and deoptimizes under an
\* invalid one
C17_Witness ==
  /\ last.op = "DoLoadKeyedFixedArray" /\ status_ # "ABORTED"
  /\ cfg.IsStub
  /\ last.instr.hydrogen.hole_mode = "CONVERT_HOLE_TO_UNDEFINED"
  /\ LoadsUndefined(last.instr,
                    LoadOutcome(0, the_hole_value, 0, SmiFromInt(kArrayProtectorValid)))
  /\ Deopts(LoadOutcome(0, the_hole_value, 0, SmiFromInt(0)), "kHole")

\* ---------------------------------------------------------------------- C18
\* the position in the buffer of the call the step has emitted
EmittedCall(old, new) ==
  CHOOSE j \in (Len(old) + 1)..Len(new) :
    /\ new[j].op = "call_runtime"
    /\ \A k \in (Len(old) + 1)..(j - 1) : new[k].op # "call_runtime"

\* the pc offset at which the item at position j starts
StartOf(buffer, j) == pc_offset(SubSeq(buffer, 1, j - 1))

IsNop(item) == item.op = "nop"

\* a call instruction starts patch_size bytes or more after the lazy-deopt pc
\* recorded last, and its own start is recorded
CallIsPadded ==
  (current_instruction_' # current_instruction_ /\ last'.op = "CallRuntime" /\ ~cfg.IsStub)
    => /\ StartOf(masm', EmittedCall(masm, masm')) >= last_lazy_deopt_pc_ + patch_size
       /\ last_lazy_deopt_pc_' = StartOf(masm', EmittedCall(masm, masm'))

\* nops of patch_size bytes or more precede the safepoint table of non-stub
\* code; stub code holds no nop
TableIsPadded ==
  /\ ~cfg.IsStub =>
       \A i \in 1..Len(masm) :
         masm[i].op = "safepoint_table"
           => i > 1 /\ IsNop(masm[i - 1]) /\ masm[i - 1].a >= patch_size
  /\ cfg.IsStub => \A i \in 1..Len(masm) : ~IsNop(masm[i])

IsDeferredMark(item) == item.op \in {"bind_entry", "jmp_exit"}

\* the entry labels bound and the jumps to exit labels emitted, in buffer order
DeferredMarks(buffer) == SelectSeq(buffer, IsDeferredMark)

\* the marks of blocks 0 .. n-1, each generated once and in registration order
MarksOfBlocks(n) ==
  [k \in 1..(2 * n) |->
     IF k % 2 = 1 THEN Ins("bind_entry", (k - 1) \div 2, 0)
     ELSE Ins("jmp_exit", (k \div 2) - 1, 0)]

\* the blocks generated so far are the first deferred_index registered ones,
\* once each and in order; none is generated before the main body has ended, a
\* block is registered before the first one is generated, and a unit that is
\* done has generated every registered block
DeferredInOrder ==
  /\ deferred_index <= Len(deferred_)
  /\ DeferredMarks(masm) = MarksOfBlocks(deferred_index)
  /\ phase \in {"start", "prologue", "body"} => deferred_index = 0
  /\ \A i \in 1..Len(masm), j \in 1..Len(masm) :
       (masm[i].op = "j_deferred" /\ masm[j].op = "bind_entry") => i < j
  /\ status_ = "DONE" => deferred_index = Len(deferred_)

\* a step that generates a block emits code that starts with the bound entry
\* label of the next registered block and ends with the jump to its exit label;
\* it is taken in the deferred phase of a unit that is not aborted
DeferredBlockStep ==
  /\ deferred_index' # deferred_index
       => /\ phase = "deferred" /\ status_ # "ABORTED"
          /\ deferred_index' = deferred_index + 1
          /\ Len(masm') >= Len(masm) + 2
          /\ masm'[Len(masm) + 1] = Ins("bind_entry", deferred_index, 0)
          /\ masm'[Len(masm')] = Ins("jmp_exit", deferred_index, 0)
  /\ status_ = "ABORTED" => DeferredMarks(masm') = DeferredMarks(masm)

\* C19: while the unit is not aborted every registered deferred block is
\* generated exactly once, after the whole main body, in registration order;
\* each block starts at its bound entry label and ends with a jump to its exit
\* label; after an abort no further block is generated
C19_DeferredBlocksInOrder == [][DeferredBlockStep]_vars /\ []DeferredInOrder

\* a unit that aborted while it generated the first of two deferred blocks:
\* the block is complete and the second one is never generated
C19_Witness ==
  /\ status_ = "ABORTED" /\ phase = "finished" /\ last.op = "GenerateDeferredEnd"
  /\ Len(deferred_) = 2 /\ deferred_index = 1
  /\ DeferredMarks(masm) = MarksOfBlocks(1)

\* ---------------------------------------------------------------------- C20
CheckSumOf(data) == GetHeaderValue(data, kCheckSumOffset)

\* the snapshot data the last call extracted from the blob differs in its
\* checksum from the version hash of the running build
ExtractedMismatch ==
  /\ last.op \in {"Initialize", "NewContextFromSnapshot"}
  /\ last.extracted.ok
  /\ CheckSumOf(last.extracted.value) # VersionHash(isolate.build)

TopFourBitsSet(key) == (key \div 2^28) % 16 # 0

\* the halves of a 32-bit word
Low16(word) == word % 65536
High16(word) == (word \div 65536) % 65536

\* word is key * 2^shift + base_offset as a 32-bit word, for a key below 2^28
IsScaledKey(word, key, shift, base_offset) ==
  /\ Low16(word) = (Low16(key) * 2^shift + base_offset) % 65536
  /\ High16(word) = (High16(key) * 2^shift
                       + ((Low16(key) * 2^shift + base_offset) \div 65536)) % 65536

\* the lowering of a keyed load with a constant key aborts the unit exactly on
\* a key with one of the top four bits set, and else emits a load whose
\* displacement is key * element_size + base_offset
KeyedLoadStep ==
  \A instr \in KeyedInstructions :
    GenerateBodyInstructionOf(instr, MaxKeyedInstr) =>
      IF TopFourBitsSet(instr.key)
      THEN status_' = "ABORTED" /\ bailout_reason' = "kArrayIndexConstantValueTooBig"
      ELSE /\ status_' = status_ /\ bailout_reason' = bailout_reason
           /\ Len(masm') = Len(masm) + 1
           /\ Last(masm').op = "mov"
           /\ IsScaledKey(Last(masm').b.disp, instr.key,
                          ElementsKindToShiftSize(instr.elements_kind), instr.base_offset)
           /\ (instr.key <= (kMaxInt32 - instr.base_offset)
                              \div 2^ElementsKindToShiftSize(instr.elements_kind)
                 => Last(masm').b.disp
                      = instr.key * 2^ElementsKindToShiftSize(instr.elements_kind)
                          + instr.base_offset)

\* an aborted unit stays aborted, and GenerateCode returns false for it
AbortedUnitFails ==
  /\ status_ = "ABORTED" => status_' = "ABORTED" /\ result' # "true"
  /\ (status_' = "ABORTED" /\ phase' = "finished") => result' = "false"

OperandsOfKind(pointers, kind) ==
  {k \in 1..Len(GetNormalizedOperands(pointers)) :
     GetNormalizedOperands(pointers)[k].kind = kind}

\* the safepoint holds, in the order of the normalized pointer map, the index of
\* each of its stack slots and, if with_registers, the code of each of its
\* registers, and nothing more
RecordsOperands(safepoint, with_registers) ==
  /\ Len(safepoint.indexes) = Cardinality(OperandsOfKind(safepoint.pointers, "STACK_SLOT"))
  /\ \A k \in OperandsOfKind(safepoint.pointers, "STACK_SLOT") :
       safepoint.indexes[Cardinality({j \in OperandsOfKind(safepoint.pointers, "STACK_SLOT") :
                                        j <= k})]
         = GetNormalizedOperands(safepoint.pointers)[k].index
  /\ Len(safepoint.registers)
       = (IF with_registers
          THEN Cardinality(OperandsOfKind(safepoint.pointers, "REGISTER")) ELSE 0)
  /\ with_registers =>
       \A k \in OperandsOfKind(safepoint.pointers, "REGISTER") :
         safepoint.registers[Cardinality({j \in OperandsOfKind(safepoint.pointers, "REGISTER") :
                                            j <= k})]
           = ToRegister(GetNormalizedOperands(safepoint.pointers)[k])

\* C22: RecordSafepoint records every stack-slot operand of the normalized
\* pointer map as a pointer slot for every safepoint kind, a register operand as
\* a pointer register only when the kind includes with-registers, and nothing
\* for an operand of any other kind
C22_SafepointOperandsByKind ==
  \A i \in 1..Len(safepoints_) :
    RecordsOperands(safepoints_[i], safepoints_[i].kind = "kWithRegisters")

\* a pointer map of a double stack slot, a stack slot and a register, recorded
\* at a simple safepoint and at a safepoint with registers
C22_Witness ==
  /\ GetNormalizedOperands(cfg.pointer_map)
       = <<LOperand("DOUBLE_STACK_SLOT", 0), LOperand("STACK_SLOT", 1), LOperand("REGISTER", 4)>>
  /\ \E i, j \in 1..Len(safepoints_) :
       /\ safepoints_[i].kind = "kSimple" /\ safepoints_[j].kind = "kWithRegisters"
       /\ safepoints_[i].indexes = <<1>> /\ safepoints_[i].registers = <<>>
       /\ safepoints_[j].indexes = <<1>> /\ safepoints_[j].registers = <<6>>

\* ---------------------------------------------------------------------- C23
\* every state of the condition flags
AllFlags == [ZF : BOOLEAN, SF : BOOLEAN, OF : BOOLEAN, CF : BOOLEAN, PF : BOOLEAN]

\* the block the code of a call of EmitBranch transfers control to
BranchTarget(c, flags) ==
  Exec(c.code, 1, [xmm |-> <<>>], flags, GetNextEmittedBlock(cfg))

\* the code EmitBranch emits in each of the three layouts
BranchShape(c) ==
  IF TrueDestination(cfg, c.instr) = GetNextEmittedBlock(cfg)
  THEN c.code = <<Ins("j", NegateCondition(c.cc),
                      GetAssemblyLabel(FalseDestination(cfg, c.instr)))>>
  ELSE IF FalseDestination(cfg, c.instr) = GetNextEmittedBlock(cfg)
  THEN c.code = <<Ins("j", c.cc, GetAssemblyLabel(TrueDestination(cfg, c.instr)))>>
  ELSE c.code = <<Ins("j", c.cc, GetAssemblyLabel(TrueDestination(cfg, c.instr))),
                  Ins("jmp", GetAssemblyLabel(FalseDestination(cfg, c.instr)), 0)>>

\* C23: for distinct true and false destinations and a real condition cc, the
\* code EmitBranch emits transfers control to the true block exactly when cc
\* holds and to the false block otherwise, whichever block is emitted next: one
\* jump on the negated condition to the false block when the true block is
\* next, one jump on cc to the true block when the false block is next, a jump
\* on cc and an unconditional jump to the false block when neither is next
C23_BranchFollowsCondition ==
  (last.op \in {"DoCompareNumericAndBranch", "DoCmpObjectEqAndBranch"}) =>
    \A i \in BranchCalls :
      (~OneDestination(last.calls[i]) /\ last.calls[i].cc # "no_condition") =>
        /\ BranchShape(last.calls[i])
        /\ \A flags \in AllFlags :
             BranchTarget(last.calls[i], flags)
               = IF Holds(last.calls[i].cc, flags)
                 THEN TrueDestination(cfg, last.calls[i].instr)
                 ELSE FalseDestination(cfg, last.calls[i].instr)

\* a signed comparison whose true block is emitted next: one jump on the negated
\* condition, to the false block
C23_Witness ==
  /\ last.op = "DoCompareNumericAndBranch"
  /\ \E i \in BranchCalls :
       /\ ~OneDestination(last.calls[i])
       /\ last.calls[i].cc = "less"
       /\ TrueDestination(cfg, last.instr) = GetNextEmittedBlock(cfg)
       /\ last.calls[i].code
            = <<Ins("j", "greater_equal", GetAssemblyLabel(FalseDestination(cfg, last.instr)))>>

\* ---------------------------------------------------------------------- C24
\* position at of the buffer lies inside the frame of a deferred block
InDeferredFrame(at) ==
  \E j \in 1..(at - 1) :
    /\ masm[j].op = "build_frame"
    /\ \A k \in (j + 1)..(at - 1) : masm[k].op # "destroy_frame"

\* the jump-table entry a table-routed guard branches to
EntryOfGuard(guard) == jump_table_[masm[guard.at].a + 1]

\* every deferred block in the buffer builds its frame right after its entry
\* and destroys it right before the jump to its exit
DeferredFramesBracketed ==
  \A j \in 1..Len(masm) :
    /\ masm[j].op = "bind_entry"
         => j < Len(masm) /\ masm[j + 1].op = "build_frame"
    /\ masm[j].op = "jmp_exit"
         => /\ masm[j - 1].op = "destroy_frame" /\ masm[j - 2].op = "bind_done"
            /\ InDeferredFrame(j - 1)
    /\ masm[j].op = "build_frame" => ~InDeferredFrame(j)

\* with the main frame elided, frame_is_built_ is false outside the deferred
\* blocks, a table-routed guard of a deferred block was emitted under a built
\* frame and is not marked needs-frame, and one of the main body always is
ElidedFrame ==
  cfg.NeedsDeferredFrame =>
    /\ ~frame_is_built_
    /\ DeferredFramesBracketed
    /\ \A k \in 1..Len(guards) :
         /\ guards[k].frame_is_built = InDeferredFrame(guards[k].at)
         /\ TableRouted(guards[k]) =>
              EntryOfGuard(guards[k]).needs_frame = ~InDeferredFrame(guards[k].at)

\* without deferred frames a deferred block leaves frame_is_built_ as it is
DeferredKeepsFrame ==
  (phase = "deferred" /\ ~cfg.NeedsDeferredFrame) => frame_is_built_' = frame_is_built_

\* C24: when the main frame was elided, frame_is_built_ is true throughout the
\* generation of each deferred block and false between blocks and after the
\* deferred-code phase, so a table-routed guard emitted inside a deferred block
\* is never marked needs-frame while one emitted in the frameless main body
\* always is; when deferred frames are not needed, the deferred-code phase
\* leaves frame_is_built_ unchanged
C24_DeferredFrameBuilt == []ElidedFrame /\ [][DeferredKeepsFrame]_vars

\* a frameless unit is done with a guard in its main body, marked needs-frame,
\* and a guard in a deferred block, which is not
C24_Witness ==
  /\ cfg.NeedsDeferredFrame /\ status_ = "DONE" /\ phase = "finished"
  /\ \E i, k \in 1..Len(guards) :
       /\ ~InDeferredFrame(guards[i].at) /\ EntryOfGuard(guards[i]).needs_frame
       /\ InDeferredFrame(guards[k].at) /\ ~EntryOfGuard(guards[k]).needs_frame

\* ---------------------------------------------------------------------- C25
\* the SIMD registers before a shuffle: lane i of the left operand holds i,
\* lane i of the right operand holds 4 + i, the scratch register holds neither
LanesBefore(instr) ==
  [r \in 0..2 |-> IF r = instr.a0 THEN <<0, 1, 2, 3>>
                  ELSE IF r = instr.a1 THEN <<4, 5, 6, 7>> ELSE <<8, 8, 8, 8>>]

ShuffleResult == RunSIMD(last.code, 1, LanesBefore(last.instr))[last.instr.a0]

ConstantShuffle == last.op = "DoSenarySIMDOperation" /\ last.instr.constant_selectors

LanesFromLeft(instr) == Below4(instr.x) + Below4(instr.y) + Below4(instr.z) + Below4(instr.w)

\* C25: for Float32x4Shuffle and Int32x4Shuffle with constant selectors x, y, z, w
\* each in 0..7, the emitted movaps/shufps sequence leaves in result lane i the
\* lane named by the i-th selector, for every selector combination, whatever
\* number of lanes comes from the left operand
C25_ShuffleSelectsLanes ==
  ConstantShuffle =>
    ShuffleResult = <<last.instr.x, last.instr.y, last.instr.z, last.instr.w>>

\* the shuffles that take exactly one lane from the left operand emit nothing;
\* those that take none, two, three or four select the named lanes
C25_AllButOneLane ==
  ConstantShuffle =>
    IF LanesFromLeft(last.instr) = 1
    THEN last.code = <<>> /\ ShuffleResult = <<0, 1, 2, 3>>
    ELSE ShuffleResult = <<last.instr.x, last.instr.y, last.instr.z, last.instr.w>>

\* ---------------------------------------------------------------------- C26
\* the bytes of the snapshot the blob was given for a serializer
BytesGiven(serializer) == RawData(SnapshotData(serializer, last.build))

\* what every ExtractContextData gives, one index after the other from i on
RECURSIVE ContextsRead(_, _)
ContextsRead(blob, i) ==
  IF i >= ExtractNumContexts(blob).value THEN <<>>
  ELSE ExtractContextData(blob, i).value \o ContextsRead(blob, i + 1)

\* the extracted ranges follow one another from the startup offset to the end
\* of the blob
RangesContiguous(blob) ==
  Vector(blob.data, StartupSnapshotOffset(ExtractNumContexts(blob).value),
         blob.raw_size - StartupSnapshotOffset(ExtractNumContexts(blob).value))
    = ExtractStartupData(blob).value \o ContextsRead(blob, 0)

\* what was extracted is what CreateSnapshotBlob was given
ReadsBack ==
  /\ last.op = "ExtractNumContexts"
       => last.extracted = Checked(TRUE, Len(last.contexts))
  /\ last.op = "ExtractStartupData"
       => last.extracted = Checked(TRUE, BytesGiven(last.startup))
  /\ (last.op = "ExtractContextData" /\ last.index < Len(last.contexts))
       => last.extracted = Checked(TRUE, BytesGiven(last.contexts[last.index + 1]))
  /\ last.op # "none" => RangesContiguous(isolate.snapshot_blob)

\* C26: for any startup snapshot and any list of context snapshots, including
\* the empty list, the blob built by CreateSnapshotBlob gives back the same
\* number of contexts from ExtractNumContexts, exactly the startup snapshot's
\* bytes from ExtractStartupData and exactly the i-th context snapshot's bytes
\* from ExtractContextData(i); the extracted ranges are contiguous, do not
\* overlap and end at the end of the blob
C26_BlobReadsBack == ReadsBack

\* the same for the blobs of at least one context; the number of contexts
\* reads back for the empty list too
C26_BlobWithContextsReadsBack ==
  /\ last.op = "ExtractNumContexts" => last.extracted = Checked(TRUE, Len(last.contexts))
  /\ (last.op # "none" /\ last.contexts # <<>>) => ReadsBack

\* ---------------------------------------------------------------------- C27
\* the step lowers an instruction, or generates a deferred block, that calls
\* DeoptimizeIf on the environment last'.env
CallsDeoptimizeIf ==
  /\ last' # last
  /\ \/ last'.op = "Deoptimize"
     \/ last'.op = "CheckMaps" /\ deferred_' = deferred_
     \/ last'.op = "GenerateDeferredBlock"

\* no deoptimization entry exists for the index the environment has after the step
EntryMissing ==
  \A bailout_type \in {"EAGER", "LAZY", "SOFT"} :
    GetDeoptimizationEntry(environments'[last'.env].deoptimization_index,
                           bailout_type) = NULL

GuardOps == {"call_entry", "jmp_table", "j_table", "stress_count", "int3", "j_negated"}

\* the step added no instruction of a guard and no jump-table entry
NothingOfAGuard ==
  /\ guards' = guards /\ jump_table_' = jump_table_
  /\ IsPrefix(masm, masm')
  /\ \A k \in (Len(masm) + 1)..Len(masm') : masm'[k].op \notin GuardOps

\* after the step the environment is in the deoptimization list at its index
\* and its translation begins at its translation index
RegistrationKept ==
  LET env == environments'[last'.env]
  IN /\ HasBeenRegistered(env)
     /\ IsPrefix(deoptimizations_, deoptimizations_')
     /\ env.deoptimization_index < Len(deoptimizations_')
     /\ deoptimizations_'[env.deoptimization_index + 1] = last'.env
     /\ IsPrefix(translations_, translations_')
     /\ env.translation_index < Len(translations_')
     /\ translations_'[env.translation_index + 1]
          = Cmd("BEGIN", FrameCount(environments, last'.env, FALSE),
                FrameCount(environments, last'.env, TRUE))

BailoutNotPrepared ==
  CallsDeoptimizeIf =>
    IF EntryMissing
    THEN /\ status_' = "ABORTED" /\ bailout_reason' = "kBailoutWasNotPrepared"
         /\ NothingOfAGuard
         /\ RegistrationKept
    ELSE status_' = status_ /\ Len(guards') = Len(guards) + 1

\* C27: when no deoptimization entry exists for the environment's
\* deoptimization index and bailout type, DeoptimizeIf aborts the unit with
\* reason bailout-was-not-prepared, emits no instruction and adds no jump-table
\* entry, while the environment registration made just before (its
\* deoptimization-list entry and its translation) is kept
C27_BailoutWasNotPrepared == [][BailoutNotPrepared]_vars

\* a guard on a newly registered environment found no entry: the unit is
\* aborted and the environment is the last of the deoptimization list
C27_Witness ==
  /\ last.op \in {"Deoptimize", "CheckMaps"} /\ status_ = "ABORTED"
  /\ bailout_reason = "kBailoutWasNotPrepared"
  /\ Len(deoptimizations_) = MaxDeoptEntries + 1
  /\ Last(deoptimizations_) = last.env
  /\ Len(guards) = MaxDeoptEntries

\* ---------------------------------------------------------------------- C28
\* the success label of the CheckMaps entered at position k
SuccessOf(k) ==
  CHOOSE j \in k..Len(masm) :
    masm[j].op = "bind_success" /\ \A i \in k..(j - 1) : masm[i].op # "bind_success"

\* the maps the CheckMaps entered at position k compares the object's map with
MapsCompared(k) == {masm[j].a : j \in {i \in k..SuccessOf(k) : masm[i].op = "cmp_map"}}

HasMigrationPath(k) == masm[k].op = "bind_check_maps"

\* the machine run on from m up to the next runtime call or the end of the check
RECURSIVE Settle(_)
Settle(m) ==
  IF m.state # "running" \/ masm[m.pc].op = "call_runtime" THEN m
  ELSE Settle(Executed(m, NULL))

\* the runtime call of the deferred block of the CheckMaps entered at k
MigrationCallOf(k) ==
  CHOOSE j \in 1..Len(masm) :
    /\ masm[j].op = "call_runtime"
    /\ \E e \in 1..(j - 1) :
         /\ masm[e].op = "bind_entry" /\ masm[e].a = masm[k].a
         /\ \A i \in (e + 1)..(j - 1) : masm[i].op # "bind_entry"

\* the success label is reached only by a comparison that matched; a deopt of
\* a check with a migration target is a failed migration; at the start of the
\* comparisons an object whose map matches none goes on to the migration call
MapCheckOutcome ==
  Running \/ (isolate # NoIsolate /\ isolate.state \in {"success", "deoptimized"}) =>
    LET k == isolate.entered
    IN /\ isolate.state = "success"
            => isolate.equal /\ isolate.map \in MapsCompared(k)
                 /\ isolate.pc = SuccessOf(k)
       /\ isolate.state = "deoptimized"
            => IF HasMigrationPath(k)
               THEN isolate.reason = "kInstanceMigrationFailed" /\ isolate.eax_smi
               ELSE isolate.reason = "kWrongMap" /\ isolate.map \notin MapsCompared(k)
       /\ (Running /\ isolate.pc = k /\ HasMigrationPath(k))
            => IF isolate.map \in MapsCompared(k)
               THEN Settle(isolate).state = "success"
               ELSE /\ Settle(isolate).state = "running"
                    /\ Settle(isolate).pc = MigrationCallOf(k)

\* a failed comparison against the last map enters the deferred block; after
\* the runtime call a smi deoptimizes and anything else goes on to the jump
\* that leaves the block, which leads to the start of the comparisons
MapCheckStep ==
  (Running /\ isolate' # isolate) =>
    LET c == masm[isolate.pc]
        k == isolate.entered
    IN /\ (c.op = "j_deferred" /\ ~isolate.equal)
            => /\ masm[isolate'.pc].op = "bind_entry" /\ masm[isolate'.pc].a = masm[k].a
               /\ isolate'.state = "running"
       /\ (c.op = "j_table" /\ HasMigrationPath(k))
            => IF isolate.eax_smi THEN isolate'.state = "deoptimized"
               ELSE isolate'.state = "running" /\ isolate'.pc = isolate.pc + 1
       /\ c.op = "jmp_exit"
            => /\ isolate'.pc = k /\ isolate'.state = "running"
               /\ masm[isolate'.pc].op = "bind_check_maps"
               /\ isolate'.pc < SuccessOf(k)
               /\ ~isolate.eax_smi

\* C28: for a CheckMaps with a migration target, a failed comparison against
\* the last map enters the deferred migration block; if the runtime migration
\* returns a smi the code deoptimizes with reason instance-migration-failed,
\* otherwise control returns to the start of the map comparisons and not to the
\* success label, so the success label is reached only through a map comparison
\* that matches, and an object whose map still matches none after a successful
\* migration re-enters the migration path
C28_MigrationReturnsToMapCheck == []MapCheckOutcome /\ [][MapCheckStep]_vars

\* after a successful migration the object's map still matches none of the
\* maps and the code is in the deferred migration block again
C28_Witness ==
  /\ Running /\ isolate.migrated /\ HasMigrationPath(isolate.entered)
  /\ isolate.map \notin MapsCompared(isolate.entered)
  /\ masm[isolate.pc].op = "call_runtime"

\* ---------------------------------------------------------------------- C29
\* the remainder of x by d that carries the sign of x
TruncMod(x, d) == x - d * TruncDiv(x, d)

Value32(m, operand) ==
  IF "imm" \in DOMAIN operand THEN operand.imm
  ELSE IF "reg" \in DOMAIN operand THEN m.reg[operand.reg]
  ELSE m.slot[operand.slot]

RECURSIVE Run32(_, _, _)
Run32(code, i, m) ==
  IF i > Len(code) THEN m
  ELSE Run32(code, i + 1,
         CASE code[i].op = "mov" ->
                [m EXCEPT !.reg[code[i].a.reg] = Value32(m, code[i].b)]
           [] code[i].op = "shl" ->
                [m EXCEPT !.reg[code[i].a.reg] =
                            ShiftLeft32(Value32(m, code[i].a), code[i].b.imm)]
           [] code[i].op = "add" ->
                [m EXCEPT !.reg[code[i].a.reg] =
                            Add32(Value32(m, code[i].a), code[i].b.imm)]
           [] code[i].op = "cmp" ->
                [m EXCEPT !.compared = <<Value32(m, code[i].a), Value32(m, code[i].b)>>]
           [] OTHER -> m)

\* "above" of two 32-bit words: the unsigned comparison
Above32(a, b) == IF (a < 0) = (b < 0) THEN a > b ELSE a < 0

\* the 32-bit word that holds value v in representation r
Word32(v, r) == IF r = "Smi" THEN 2 * v ELSE v

\* indices and lengths of the 32-bit range; a Smi has 31 bits
Indices32 == {0, 1, 3, 2^28, 2^29 - 1, 2^30 - 4, 2^30 - 1, 2^30, 2^30 + 1, kMaxInt32 - 3}
Lengths32 == {0, 1, 4, 16, 2^28, 2^30 - 1, kMaxInt32}
Values32(values, r) == IF r = "Smi" THEN {v \in values : v < 2^30} ELSE values

IsSIMD128BoundsCheck ==
  /\ last.op = "DoBoundsCheck"
  /\ IsSIMD128LoadStoreOp(last.instr.builtin)
  /\ ~IsConstantOperand(last.instr.index)
  /\ ~IsConstantOperand(last.instr.length)

\* whether the check of the lowered instruction deoptimizes for index and length
SIMD128CheckDeopts(index, length) ==
  LET r == last.instr.index_representation
      m == Run32(last.code, 1,
                 Placed(Placed([reg |-> [n \in 0..3 |-> 0], slot |-> [n \in {0} |-> 0],
                                compared |-> <<0, 0>>],
                               last.instr.length, Word32(length, r)),
                        last.instr.index, Word32(index, r)))
  IN Above32(m.compared[1], m.compared[2])

\* index * element_size + access_bytes > length * element_size, computed
\* without overflow, for an index and a length that are not negative
ExceedsByteLength(instr, index, length) ==
  \/ index >= length
  \/ length - index <= (GetSIMD128LoadStoreBytes(instr.builtin) - 1)
                         \div (2^ElementsKindToShiftSize(instr.element_kind))

\* whether the shift and the addition of the check stay within 32 bits
FitsWord32(instr, index, length) ==
  LET size == 2^ElementsKindToShiftSize(instr.element_kind)
  IN /\ length <= kMaxInt32 \div size
     /\ index <= (kMaxInt32 - GetSIMD128LoadStoreBytes(instr.builtin)) \div size

\* C30: the bounds check of a SIMD128 typed-array load or store deoptimizes
\* whenever index * element_size + access_bytes exceeds length * element_size
\* computed without overflow, also when the 32-bit shift or addition wraps
C30_SIMDBoundsCheckNeverWraps ==
  IsSIMD128BoundsCheck =>
    \A index \in Values32(Indices32, last.instr.index_representation),
       length \in Values32(Lengths32, last.instr.index_representation) :
      ExceedsByteLength(last.instr, index, length) => SIMD128CheckDeopts(index, length)

\* as long as neither the shift nor the addition wraps, the check deoptimizes
\* exactly when the access extends past the byte length
C30_ExactWithinWord ==
  IsSIMD128BoundsCheck =>
    \A index \in Values32(Indices32, last.instr.index_representation),
       length \in Values32(Lengths32, last.instr.index_representation) :
      FitsWord32(last.instr, index, length)
        => (SIMD128CheckDeopts(index, length)
              <=> ExceedsByteLength(last.instr, index, length))

====
